---- MODULE Spec2Model ----
(***************************************************************************)
(* Model of FAST-OAD's variable layer and unconnected-input analysis:      *)
(*   - fastoad.openmdao.variables : Variable, VariableList                 *)
(*   - fastoad.openmdao.connections_utils : get_unconnected_inputs         *)
(*   - fastoad.io.configuration.configuration : FASTOADProblemConfigurator *)
(*                                                                         *)
(* Encodings.  Python floats are the strings "nan", "0.0", "1.0" and are   *)
(* compared with IEEE semantics (FloatEq: nan differs from itself).  A     *)
(* value is [ndim, data]: ndim = 0 for a scalar, 1 for a one-dimensional   *)
(* array.  Python None is the string "None" in string-typed fields and the *)
(* empty set for the shape (a shape tuple t is {t}).  A dict is a function *)
(* from its keys.                                                          *)
(***************************************************************************)
EXTENDS Integers, Sequences, FiniteSets, TLC

VARIABLES
    cls_base_metadata,  \* class attribute Variable._base_metadata
    obj,                \* Variable instances held by the caller, by slot
    made,               \* the constructor arguments of each instance of obj
    ret,                \* what the last call on Variable returned or raised
    vlist,              \* a VariableList instance
    before,             \* vlist as it was when the last call on it started
    call,               \* the last call on vlist, with its arguments
    graph,              \* the inspected problem's model: set up or not, and its input ports
    unconnected,        \* what get_unconnected_inputs returned
    ivc,                \* what build_ivc_of_unconnected_inputs returned
    files,              \* the file system: by path, whether the file exists, its TOML text,
                        \* and the configuration a save wrote it from
    registry,           \* the identifiers OpenMDAOSystemRegistry knows
    conf,               \* a FASTOADProblemConfigurator: _conf_file, _conf_dict, _auto_scaling
    conf_before,        \* conf as it was when the last call on it started
    cret,               \* the last call on conf: its arguments, what it returned or raised
    evals,              \* the calls of _om_eval made by the last call on conf, in order
    loaded,             \* the file read by the last call of load that succeeded
    ncalls              \* the number of calls made on conf, where it is bounded

vars == <<cls_base_metadata, obj, made, ret, vlist, before, call, graph, unconnected, ivc,
          files, registry, conf, conf_before, cret, evals, loaded, ncalls>>

\* longest array used as a value
MaxDim == 2
\* longest other_var_list given to VariableList.update
MaxOther == 2
\* number of input ports of the inspected model
MaxPorts == 3

None == "None"
NaN == "nan"

Range(s) == {s[i] : i \in 1..Len(s)}

EmptyDict == [k \in {} |-> None]

----------------------------------------------------------------------------
(* numpy values                                                            *)

Scalar(x) == [ndim |-> 0, data |-> <<x>>]
Array(s) == [ndim |-> 1, data |-> s]

\* every sequence over S of length 0..n
RECURSIVE SeqsUpTo(_, _)
SeqsUpTo(S, n) ==
    IF n = 0 THEN {<<>>}
    ELSE LET shorter == SeqsUpTo(S, n - 1)
         IN shorter \cup {Append(s, x) : s \in shorter, x \in S}

\* np.shape(value)
np_shape(v) == IF v.ndim = 0 THEN <<>> ELSE <<Len(v.data)>>

\* float == float
FloatEq(a, b) == a # NaN /\ b # NaN /\ a = b

\* np.isnan on one element
isnan(a) == a = NaN

\* numpy broadcasting of two values of at most one dimension
Broadcastable(a, b) ==
    Len(a.data) = Len(b.data) \/ Len(a.data) = 1 \/ Len(b.data) = 1

BroadcastLen(a, b) ==
    IF Len(a.data) >= Len(b.data) THEN Len(a.data) ELSE Len(b.data)

Elem(a, i) == IF Len(a.data) = 1 THEN a.data[1] ELSE a.data[i]

----------------------------------------------------------------------------
(* Configuration values                                                    *)
(*                                                                         *)
(* A value of the configuration is a node [kind, text, items]: a table     *)
(* (Python dict, items in insertion order, each [k, v]), a list (items     *)
(* with k = ""), a string (text: its pieces in order, so that a substring  *)
(* test can be computed) or a number (text: its literal).  A path is the   *)
(* sequence of its components, absolute if it starts with "/"; None and    *)
(* the empty string are the empty sequence.                                *)

Str(chunks) == [kind |-> "str", text |-> chunks, items |-> <<>>]
Num(literal) == [kind |-> "num", text |-> <<literal>>, items |-> <<>>]
Table(items) == [kind |-> "table", text |-> <<>>, items |-> items]
List(elems) ==
    [kind |-> "list", text |-> <<>>,
     items |-> [i \in 1..Len(elems) |-> [k |-> "", v |-> elems[i]]]]
NoNode == [kind |-> "none", text |-> <<>>, items |-> <<>>]
Item(k, v) == [k |-> k, v |-> v]

\* key in d
dict_has(d, key) == \E i \in 1..Len(d.items) : d.items[i].k = key

\* d[key], for a key of d
dict_get(d, key) ==
    d.items[CHOOSE i \in 1..Len(d.items) : d.items[i].k = key].v

\* d.get(key, default)
dict_get_or(d, key, default) ==
    IF dict_has(d, key) THEN dict_get(d, key) ELSE default

\* d[key] = value: in place for a key of d, at the end for a new key
dict_set(d, key, value) ==
    IF dict_has(d, key)
    THEN [d EXCEPT !.items = [i \in 1..Len(d.items) |->
                                 IF d.items[i].k = key THEN Item(key, value)
                                 ELSE d.items[i]]]
    ELSE [d EXCEPT !.items = Append(d.items, Item(key, value))]

\* d without key
dict_pop(d, key) ==
    [d EXCEPT !.items = SelectSeq(d.items, LAMBDA it : it.k # key)]

\* the elements of a list node
Elems(l) == [i \in 1..Len(l.items) |-> l.items[i].v]

\* bool(value) for a node: empty containers, the empty string and 0 are false
NodeTruthy(n) ==
    CASE n.kind \in {"table", "list"} -> n.items # <<>>
      [] n.kind = "str" -> n.text # <<>>
      [] n.kind = "num" -> n.text # <<"0">>
      [] OTHER -> FALSE

\* No exception; an exception is [cls, arg, key, value, original]: its class,
\* the keyword it was built with, and for the key-building errors the key
\* path, the offending value and the class of the original exception
NoError == [cls |-> None, arg |-> None, key |-> <<>>, value |-> NoNode, original |-> None]
Raise(cls) == [NoError EXCEPT !.cls = cls]

\* No system; a system of a model is [kind, name, id, options, subsystems,
\* attrs]: a group with its subsystems and the attributes set on it, or a
\* leaf made by the registry from an identifier and options
NoSystem ==
    [kind |-> "none", name |-> None, id |-> <<>>, options |-> <<>>,
     subsystems |-> <<>>, attrs |-> <<>>]

\* No problem; a problem is [built, model, input_file_path, output_file_path,
\* driver, log], log being the calls made on it and on its model, in order
NoProblem ==
    [built |-> FALSE, model |-> NoSystem, input_file_path |-> <<>>,
     output_file_path |-> <<>>, driver |-> None, log |-> <<>>]

\* FASTOADProblemConfigurator.__init__ without conf_file_path
Unloaded == [conf_file |-> <<>>, conf_dict |-> Table(<<>>), auto_scaling |-> FALSE]

NoCall ==
    [op |-> None, file |-> <<>>, flag |-> FALSE, arg |-> NoNode,
     raised |-> NoError, problem |-> NoProblem, value |-> NoNode]

FilePaths == {<<"work", "conf.toml">>, <<"work", "other.toml">>}
NoFile == [exists |-> FALSE, text |-> <<>>, saved |-> FALSE, snapshot |-> NoNode]

\* the systems registered when fastoad is imported
BuiltinSystems == {"compute_x"}

InitConf ==
    /\ files = [p \in FilePaths |-> NoFile]
    /\ registry = BuiltinSystems
    /\ conf = Unloaded
    /\ conf_before = Unloaded
    /\ cret = NoCall
    /\ evals = <<>>
    /\ loaded = <<>>
    /\ ncalls = 0

ConfUnchanged ==
    UNCHANGED <<files, registry, conf, conf_before, cret, evals, loaded, ncalls>>

----------------------------------------------------------------------------
(* Variable                                                                *)

\* content of resources/variable_descriptions.txt: the names that have an
\* internal description
VariableDescriptions == [n \in {"x"} |-> "internal description of x"]

\* kwargs of IndepVarComp.add_output(name="a"), plus "value" and "tags"
IvcBaseMetadata ==
    [k \in {"value", "units", "desc", "shape", "tags"} |->
        CASE k = "value" -> Scalar("1.0")
          [] k = "units" -> None
          [] k = "desc" -> ""
          [] k = "shape" -> {}
          [] k = "tags" -> {}]

\* Python truthiness of a description
Truthy(s) == s # None /\ s # ""

\* Variable._set_default_shape, on the metadata dict
set_default_shape(md) ==
    IF md["shape"] = {}
    THEN LET shape == np_shape(md["value"])
         IN [k \in DOMAIN md |->
                IF k = "shape" THEN {IF shape = <<>> THEN <<1>> ELSE shape}
                ELSE md[k]]
    ELSE md

\* Variable.__init__ run while the class attribute _base_metadata is
\* class_base_metadata: the instance produced for (name, **kwargs).  The base
\* metadata is looked up through the instance, finds the class attribute, and
\* when that is empty it is rebuilt and bound to the INSTANCE attribute.
Variable_new(class_base_metadata, name, kwargs) ==
    LET base == IF DOMAIN class_base_metadata = {}
                THEN IvcBaseMetadata
                ELSE class_base_metadata
        merged == [k \in DOMAIN base |->
                      IF k \in DOMAIN kwargs THEN kwargs[k] ELSE base[k]]
        shaped == set_default_shape(merged)
        described ==
            IF ~Truthy(shaped["desc"]) /\ name \in DOMAIN VariableDescriptions
            THEN [k \in DOMAIN shaped |->
                    IF k = "desc" THEN VariableDescriptions[name] ELSE shaped[k]]
            ELSE shaped
    IN [name |-> name, metadata |-> described, base_metadata |-> base]

\* Variable.__init__ with self.metadata.update(kwargs): every keyword is kept
Variable_keep_all_kwargs(name, kwargs) ==
    LET merged == kwargs @@ IvcBaseMetadata
        shaped == set_default_shape(merged)
        described ==
            IF ~Truthy(shaped["desc"]) /\ name \in DOMAIN VariableDescriptions
            THEN [k \in DOMAIN shaped |->
                    IF k = "desc" THEN VariableDescriptions[name] ELSE shaped[k]]
            ELSE shaped
    IN [name |-> name, metadata |-> described, base_metadata |-> IvcBaseMetadata]

\* Variable(name, **kwargs) in the current state of the class
Variable(name, kwargs) == Variable_new(cls_base_metadata, name, kwargs)

\* values
FloatVals == {"nan", "0.0", "1.0"}
ArrayVals == {Array(s) : s \in SeqsUpTo({"nan", "1.0"}, MaxDim) \ {<<>>}}
Values == {Scalar(x) : x \in FloatVals} \cup ArrayVals

\* value.setter on an instance
set_value(self, value) ==
    [self EXCEPT !.metadata =
        set_default_shape([self.metadata EXCEPT !["value"] = value])]

\* a dict without some keys
Without(md, keys) == [k \in DOMAIN md \ keys |-> md[k]]

\* values_all_equal without the NaN workaround: (my_value == other_value).all()
values_all_equal_plain(my_value, other_value) ==
    \A i \in 1..BroadcastLen(my_value, other_value) :
        FloatEq(Elem(my_value, i), Elem(other_value, i))

\* ((my_value == other_value) | (np.isnan(my_value) & np.isnan(other_value))).all()
\* on broadcastable operands
values_all_equal(my_value, other_value) ==
    \A i \in 1..BroadcastLen(my_value, other_value) :
        \/ FloatEq(Elem(my_value, i), Elem(other_value, i))
        \/ isnan(Elem(my_value, i)) /\ isnan(Elem(other_value, i))

\* Variable.__eq__(self, other) for two instances: [raised, result].  The
\* conjunction short-circuits: the values are compared only when the names are
\* equal, and operands that do not broadcast make numpy raise ValueError.
Variable_eq(self, other) ==
    LET my_value == self.metadata["value"]
        other_value == other.metadata["value"]
        my_metadata == Without(self.metadata, {"value", "tags"})
        other_metadata == Without(other.metadata, {"value", "tags"})
    IN IF self.name # other.name
       THEN [raised |-> None, result |-> FALSE]
       ELSE IF ~Broadcastable(my_value, other_value)
       THEN [raised |-> "ValueError", result |-> FALSE]
       ELSE [raised |-> None,
             result |-> values_all_equal(my_value, other_value)
                        /\ my_metadata = other_metadata]

\* Variable.get_authorized_keys: keys of the CLASS attribute
get_authorized_keys == DOMAIN cls_base_metadata

\* names given to the constructor: empty, null, one with an internal
\* description, one without
VarNames == {"", None, "x", "y"}

\* a keyword argument that may be absent: no entry, or key with one of values
Opt(key, values) == {EmptyDict} \cup {[k \in {key} |-> v] : v \in values}

\* keyword arguments given to the constructor; "foo" is no key of the schema
InitKwargs ==
    {value @@ units @@ desc @@ shape @@ foo :
        value \in Opt("value", {Scalar("nan"), Scalar("1.0"), Array(<<"nan", "1.0">>)}),
        units \in Opt("units", {"m"}),
        desc \in Opt("desc", {"d"}),
        shape \in Opt("shape", {{<<2>>}}),
        foo \in Opt("foo", {"bar"})}

\* keyword arguments of the instances that are compared
EqKwargs ==
    {value @@ units @@ tags :
        value \in Opt("value", Values),
        units \in Opt("units", {"m"}),
        tags \in Opt("tags", {{"t"}})}

Put(f, k, v) == [x \in DOMAIN f \cup {k} |-> IF x = k THEN v ELSE f[x]]

ListUnchanged == UNCHANGED <<vlist, before, call>>
GraphUnchanged == UNCHANGED <<graph, unconnected, ivc>>

\* slot = Variable(name, **kwargs).  Nothing validates name, and line 87 binds
\* the rebuilt base metadata to the instance: the class attribute stays as it is.
Variable_init(slot, name, kwargs) ==
    /\ obj' = Put(obj, slot, Variable(name, kwargs))
    /\ made' = Put(made, slot, [name |-> name, kwargs |-> kwargs])
    /\ ret' = [op |-> "__init__", slot |-> slot, raised |-> None]
    /\ UNCHANGED cls_base_metadata
    /\ ListUnchanged /\ GraphUnchanged /\ ConfUnchanged

\* obj[slot].value = value
Variable_value_setter(slot, value) ==
    /\ slot \in DOMAIN obj
    /\ obj' = [obj EXCEPT ![slot] = set_value(obj[slot], value)]
    /\ ret' = [op |-> "value.setter", slot |-> slot, raised |-> None]
    /\ UNCHANGED <<cls_base_metadata, made>>
    /\ ListUnchanged /\ GraphUnchanged /\ ConfUnchanged

\* Variable.get_authorized_keys()
Variable_get_authorized_keys ==
    /\ ret' = [op |-> "get_authorized_keys", keys |-> get_authorized_keys,
               raised |-> None]
    /\ UNCHANGED <<cls_base_metadata, obj, made>>
    /\ ListUnchanged /\ GraphUnchanged /\ ConfUnchanged

\* obj[a] == obj[b]
Variable_compare(a, b) ==
    /\ a \in DOMAIN obj /\ b \in DOMAIN obj
    /\ LET r == Variable_eq(obj[a], obj[b])
       IN ret' = [op |-> "__eq__", a |-> a, b |-> b,
                  raised |-> r.raised, result |-> r.result]
    /\ UNCHANGED <<cls_base_metadata, obj, made>>
    /\ ListUnchanged /\ GraphUnchanged /\ ConfUnchanged

InitVariable ==
    /\ cls_base_metadata = EmptyDict
    /\ obj = EmptyDict
    /\ made = EmptyDict
    /\ ret = [op |-> "none", raised |-> None]

InitList ==
    /\ vlist = <<>>
    /\ before = <<>>
    /\ call = [op |-> "none"]

NoGraph == [setup |-> FALSE, ports |-> <<>>]
NotCalled == [done |-> FALSE, raised |-> None, mandatory |-> <<>>, optional |-> <<>>]

NoIvc == [done |-> FALSE, raised |-> None, outputs |-> <<>>,
          with_optional_inputs |-> FALSE]

InitGraph ==
    /\ graph = NoGraph
    /\ unconnected = NotCalled
    /\ ivc = NoIvc

Init == InitVariable /\ InitList /\ InitGraph /\ InitConf

\* one instance: construction, value reassignment, class method
NextVariable ==
    \/ \E name \in VarNames, kwargs \in InitKwargs : Variable_init(1, name, kwargs)
    \/ \E value \in Values : Variable_value_setter(1, value)
    \/ Variable_get_authorized_keys

SpecVariable == Init /\ [][NextVariable]_vars

\* two instances, each bound once, and compared
NextEq ==
    \/ \E slot \in {1, 2}, name \in {"x", "y"}, kwargs \in EqKwargs :
          slot \notin DOMAIN obj /\ Variable_init(slot, name, kwargs)
    \/ \E a \in {1, 2}, b \in {1, 2} : Variable_compare(a, b)

SpecEq == Init /\ [][NextEq]_vars

----------------------------------------------------------------------------
(* VariableList                                                            *)

\* isinstance(item, Variable)
IsVariable(item) == DOMAIN item = {"name", "metadata", "base_metadata"}

\* VariableList.names
names(self) == [i \in 1..Len(self) |-> self[i].name]

\* list.index(x): position of the first item equal to x
index(s, x) == CHOOSE i \in 1..Len(s) : s[i] = x /\ \A j \in 1..(i - 1) : s[j] # x

\* append that never looks for the name: super().append(var)
append_always(self, var) == Append(self, var)

\* append that drops the entry of that name and puts var at the end
append_move_to_end(self, var) ==
    Append(SelectSeq(self, LAMBDA v : v.name # var.name), var)

\* VariableList.append for a Variable instance (past the isinstance check)
append(self, var) ==
    IF var.name \in Range(names(self))
    THEN [self EXCEPT ![index(names(self), var.name)] = var]
    ELSE Append(self, var)

\* the loop of VariableList.update, from the i-th item of other_var_list on
RECURSIVE update_from(_, _, _, _)
update_from(self, other_var_list, add_variables, i) ==
    IF i > Len(other_var_list)
    THEN self
    ELSE LET var == other_var_list[i]
         IN update_from(
                IF add_variables \/ var.name \in Range(names(self))
                THEN append(self, var)
                ELSE self,
                other_var_list, add_variables, i + 1)

\* update that adds the unknown variables whatever add_variables says
update_always_add(self, other_var_list, add_variables) ==
    update_from(self, other_var_list, TRUE, 1)

\* VariableList.update
update(self, other_var_list, add_variables) ==
    update_from(self, other_var_list, add_variables, 1)

\* the Variable instances given to append: three names, two values each
ListNames == {"x", "y", "z"}
NewVariable(n, x) == Variable_new(EmptyDict, n, [k \in {"value"} |-> Scalar(x)])
ListVariables == {NewVariable(n, x) : n \in ListNames, x \in {"0.0", "1.0"}}

\* the Variable instances of the lists given to update: two of the names, one
\* of them with two values
OtherVariables ==
    {NewVariable("x", "0.0"), NewVariable("x", "1.0"), NewVariable("y", "1.0")}

\* something that is no Variable: a plain dict of metadata
NotAVariable == [k \in {"value"} |-> Scalar("1.0")]

\* the lists given to update: any sequence of Variable instances up to MaxOther
OtherLists == SeqsUpTo(OtherVariables, MaxOther)

VariableUnchanged == UNCHANGED <<cls_base_metadata, obj, made, ret>>

\* vlist.append(item)
VariableList_append(item) ==
    /\ before' = vlist
    /\ IF ~IsVariable(item)
       THEN /\ call' = [op |-> "append", var |-> item, raised |-> "TypeError"]
            /\ vlist' = vlist
       ELSE /\ call' = [op |-> "append", var |-> item, raised |-> None]
            /\ vlist' = append(vlist, item)
    /\ VariableUnchanged /\ GraphUnchanged /\ ConfUnchanged

\* vlist.update(other_var_list, add_variables)
VariableList_update(other_var_list, add_variables) ==
    /\ before' = vlist
    /\ call' = [op |-> "update", other |-> other_var_list,
                add_variables |-> add_variables, raised |-> None]
    /\ vlist' = update(vlist, other_var_list, add_variables)
    /\ VariableUnchanged /\ GraphUnchanged /\ ConfUnchanged

Next ==
    \/ \E item \in ListVariables \cup {NotAVariable} : VariableList_append(item)
    \/ \E other \in OtherLists, add_variables \in BOOLEAN :
          VariableList_update(other, add_variables)

Spec == Init /\ [][Next]_vars

\* the keys of vlist[key]: a name, or an index counted from 0
StrKey(name) == [kind |-> "str", name |-> name, i |-> 0]
IntKey(i) == [kind |-> "int", name |-> None, i |-> i]

\* the largest index given as a key
MaxIndex == 1

\* VariableList.__setitem__(key, value): what it raises and the list
\* afterwards.  A value that is no Variable is a dict of metadata; for a name
\* of the list the dict becomes the metadata of the first item of that name,
\* as it is
setitem(self, key, value) ==
    IF key.kind = "str"
    THEN IF ~IsVariable(value)
         THEN IF key.name \in Range(names(self))
              THEN [raised |-> None,
                    list |-> [self EXCEPT ![index(names(self), key.name)].metadata = value]]
              ELSE [raised |-> None, list |-> append(self, Variable(key.name, value))]
         ELSE [raised |-> "TypeError", list |-> self]
    ELSE IF ~IsVariable(value)
    THEN [raised |-> "TypeError", list |-> self]
    ELSE IF key.i + 1 \in 1..Len(self)
    THEN [raised |-> None, list |-> [self EXCEPT ![key.i + 1] = value]]
    ELSE [raised |-> "IndexError", list |-> self]

\* list.__delitem__(i), with i counted from 1
del_at(self, i) == SubSeq(self, 1, i - 1) \o SubSeq(self, i + 1, Len(self))

\* VariableList.__delitem__(key): what it raises and the list afterwards
delitem(self, key) ==
    IF key.kind = "str"
    THEN IF key.name \in Range(names(self))
         THEN [raised |-> None, list |-> del_at(self, index(names(self), key.name))]
         ELSE [raised |-> "ValueError", list |-> self]
    ELSE IF key.i + 1 \in 1..Len(self)
    THEN [raised |-> None, list |-> del_at(self, key.i + 1)]
    ELSE [raised |-> "IndexError", list |-> self]

\* the keys given: two names and the indexes up to MaxIndex
ItemKeys == {StrKey(n) : n \in {"x", "y"}} \cup {IntKey(i) : i \in 0..MaxIndex}

\* the dicts of metadata assigned: one without most keys of the schema, one
\* with a key that the schema has not
ItemMappings ==
    {[k \in {"value"} |-> Scalar("0.0")],
     [k \in {"value", "foo"} |-> IF k = "value" THEN Scalar("1.0") ELSE "bar"]}

\* the values assigned: a Variable instance and dicts of metadata
ItemValues == {NewVariable("x", "1.0")} \cup ItemMappings

\* the Variable instances appended and the list given to update, of the two
\* names that are given as keys
ItemVariables == {NewVariable(n, "0.0") : n \in {"x", "y"}}
ItemLists == {<<NewVariable("y", "1.0")>>}

\* vlist[key] = value
VariableList_setitem(key, value) ==
    LET r == setitem(vlist, key, value)
    IN /\ before' = vlist
       /\ call' = [op |-> "__setitem__", key |-> key, var |-> value,
                   raised |-> r.raised]
       /\ vlist' = r.list
       /\ VariableUnchanged /\ GraphUnchanged /\ ConfUnchanged

\* del vlist[key]
VariableList_delitem(key) ==
    LET r == delitem(vlist, key)
    IN /\ before' = vlist
       /\ call' = [op |-> "__delitem__", key |-> key, raised |-> r.raised]
       /\ vlist' = r.list
       /\ VariableUnchanged /\ GraphUnchanged /\ ConfUnchanged

NextItems ==
    \/ \E item \in ItemVariables \cup {NotAVariable} : VariableList_append(item)
    \/ \E other \in ItemLists, add_variables \in BOOLEAN :
          VariableList_update(other, add_variables)
    \/ \E key \in ItemKeys, value \in ItemValues : VariableList_setitem(key, value)
    \/ \E key \in ItemKeys : VariableList_delitem(key)

SpecItems == Init /\ [][NextItems]_vars

----------------------------------------------------------------------------
(* connections_utils                                                       *)

(* The model of a problem is [setup, ports].  ports lists its input ports   *)
(* in declaration order; the absolute name of a port is its position.  A   *)
(* port is [prom, value, src]: its promoted name, its declared default (an *)
(* array, as OpenMDAO stores it) and the output bound to it, None if none. *)

\* model._var_allprocs_prom2abs_list['input'] as the list of its values: for
\* each promoted name, in order of first declaration, its absolute names
RECURSIVE prom2abs_values(_, _)
prom2abs_values(ports, i) ==
    IF i > Len(ports) THEN <<>>
    ELSE IF \E j \in 1..(i - 1) : ports[j].prom = ports[i].prom
    THEN prom2abs_values(ports, i + 1)
    ELSE <<SelectSeq([k \in 1..Len(ports) |-> k],
                     LAMBDA k : ports[k].prom = ports[i].prom)>>
         \o prom2abs_values(ports, i + 1)

\* model._conn_global_abs_in2out
connexions(ports) ==
    [a \in {k \in 1..Len(ports) : ports[k].src # None} |-> ports[a].src]

\* np.any(np.isnan(value))
any_isnan(value) == \E i \in 1..Len(value.data) : isnan(value.data[i])

\* np.all(np.isnan(value))
all_isnan(value) == \A i \in 1..Len(value.data) : isnan(value.data[i])

\* the absolute names the loop of get_unconnected_inputs classifies, in the
\* order it meets them: all those of a promoted name that has an unconnected one
RECURSIVE classified(_, _, _)
classified(groups, conn, i) ==
    IF i > Len(groups) THEN <<>>
    ELSE LET abs_names == groups[i]
             unconnected_names ==
                 SelectSeq(abs_names,
                           LAMBDA a : a \notin DOMAIN conn \/ conn[a] = "")
         IN (IF unconnected_names # <<>> THEN abs_names ELSE <<>>)
            \o classified(groups, conn, i + 1)

\* get_unconnected_inputs(problem), past the setup check:
\* (mandatory_unconnected, optional_unconnected)
get_unconnected_inputs(ports) ==
    LET visited == classified(prom2abs_values(ports, 1), connexions(ports), 1)
    IN [mandatory |-> SelectSeq(visited, LAMBDA a : all_isnan(ports[a].value)),
        optional |-> SelectSeq(visited, LAMBDA a : ~all_isnan(ports[a].value))]

\* promoted names, declared defaults and sources of the ports
PromNames == {"p", "q"}
PortValues ==
    {Array(<<"nan">>), Array(<<"1.0">>), Array(<<"nan", "1.0">>), Array(<<"nan", "nan">>)}
Sources == {None, "out"}
Ports == [prom : PromNames, value : PortValues, src : Sources]

\* the problems given to the analysis: one before setup, and every model of
\* at most MaxPorts input ports after setup
Problems ==
    {NoGraph} \cup {[setup |-> TRUE, ports |-> p] : p \in SeqsUpTo(Ports, MaxPorts)}

\* a setup check that never fires
no_setup_never(problem) == FALSE

\* not model._var_allprocs_prom2abs_list: the model has not been set up
no_setup(problem) == ~problem.setup

\* _add_outputs(unconnected_names) of build_ivc_of_unconnected_inputs, from
\* the i-th name on; outputs are those of ivc so far, whose names are the
\* processed promoted names
RECURSIVE add_outputs(_, _, _, _)
add_outputs(ports, unconnected_names, i, outputs) ==
    IF i > Len(unconnected_names) THEN outputs
    ELSE LET abs_name == unconnected_names[i]
             prom_name == ports[abs_name].prom
             processed_prom_names == {outputs[k].name : k \in 1..Len(outputs)}
         IN add_outputs(ports, unconnected_names, i + 1,
                IF prom_name \notin processed_prom_names
                THEN Append(outputs,
                            [name |-> prom_name, val |-> ports[abs_name].value])
                ELSE outputs)

\* a build that processes the optional ports before the mandatory ones
build_ivc_optional_first(ports, with_optional_inputs) ==
    LET r == get_unconnected_inputs(ports)
        optional_done == IF with_optional_inputs
                         THEN add_outputs(ports, r.optional, 1, <<>>)
                         ELSE <<>>
    IN add_outputs(ports, r.mandatory, 1, optional_done)

\* a build that adds the optional ports whatever with_optional_inputs says
build_ivc_always_optional(ports, with_optional_inputs) ==
    LET r == get_unconnected_inputs(ports)
    IN add_outputs(ports, r.optional, 1, add_outputs(ports, r.mandatory, 1, <<>>))

\* build_ivc_of_unconnected_inputs(problem, with_optional_inputs), past the
\* setup check: the outputs of the returned IndepVarComp
build_ivc_of_unconnected_inputs(ports, with_optional_inputs) ==
    LET r == get_unconnected_inputs(ports)
        mandatory_done == add_outputs(ports, r.mandatory, 1, <<>>)
    IN IF with_optional_inputs
       THEN add_outputs(ports, r.optional, 1, mandatory_done)
       ELSE mandatory_done

\* get_unconnected_inputs(problem)
Call_get_unconnected_inputs ==
    /\ ~unconnected.done
    /\ IF no_setup(graph)
       THEN unconnected' = [NotCalled EXCEPT !.done = TRUE, !.raised = "NoSetupError"]
       ELSE LET r == get_unconnected_inputs(graph.ports)
            IN unconnected' = [done |-> TRUE, raised |-> None,
                               mandatory |-> r.mandatory, optional |-> r.optional]
    /\ UNCHANGED <<graph, ivc>>
    /\ VariableUnchanged /\ ListUnchanged /\ ConfUnchanged

\* build_ivc_of_unconnected_inputs(problem, with_optional_inputs): its call
\* of get_unconnected_inputs raises before anything is added
Call_build_ivc_of_unconnected_inputs(with_optional_inputs) ==
    /\ ~ivc.done
    /\ IF no_setup(graph)
       THEN ivc' = [NoIvc EXCEPT !.done = TRUE, !.raised = "NoSetupError",
                                 !.with_optional_inputs = with_optional_inputs]
       ELSE ivc' = [done |-> TRUE, raised |-> None,
                    outputs |-> build_ivc_of_unconnected_inputs(
                                    graph.ports, with_optional_inputs),
                    with_optional_inputs |-> with_optional_inputs]
    /\ UNCHANGED <<graph, unconnected>>
    /\ VariableUnchanged /\ ListUnchanged /\ ConfUnchanged

InitConn ==
    /\ InitVariable /\ InitList
    /\ graph \in Problems
    /\ unconnected = NotCalled
    /\ ivc = NoIvc
    /\ InitConf

NextConn ==
    \/ Call_get_unconnected_inputs
    \/ \E with_optional_inputs \in BOOLEAN :
          Call_build_ivc_of_unconnected_inputs(with_optional_inputs)

SpecConn == InitConn /\ [][NextConn]_vars

----------------------------------------------------------------------------
(* configuration: TOML text                                                *)
(*                                                                         *)
(* A TOML text is the sequence of its lines, each [path, mark, value]: a   *)
(* key assignment `a.b.c = value` (mark "value"), an empty table           *)
(* `a.b = {}` (mark "table") or the header `[[a.b]]` of one more table of  *)
(* an array of tables (mark "aot").  Tables are not written: reading       *)
(* creates them from the paths of the lines.                               *)

Line(path, mark, value) == [path |-> path, mark |-> mark, value |-> value]

IsArrayOfTables(v) ==
    /\ v.kind = "list" /\ v.items # <<>>
    /\ \A i \in 1..Len(v.items) : v.items[i].v.kind = "table"

RECURSIVE toml_lines(_, _)
RECURSIVE table_lines(_, _, _)
RECURSIVE aot_lines(_, _, _)

\* the lines that write value v under path
toml_lines(path, v) ==
    IF v.kind = "table"
    THEN IF v.items = <<>> THEN <<Line(path, "table", NoNode)>>
         ELSE table_lines(path, v.items, 1)
    ELSE IF IsArrayOfTables(v) THEN aot_lines(path, v.items, 1)
    ELSE <<Line(path, "value", v)>>

\* the lines of the items of a table, from the i-th on
table_lines(path, items, i) ==
    IF i > Len(items) THEN <<>>
    ELSE toml_lines(Append(path, items[i].k), items[i].v)
         \o table_lines(path, items, i + 1)

\* the lines of the tables of an array of tables, from the i-th on
aot_lines(path, items, i) ==
    IF i > Len(items) THEN <<>>
    ELSE <<Line(path, "aot", NoNode)>>
         \o table_lines(path, items[i].v.items, 1)
         \o aot_lines(path, items, i + 1)

\* tomlkit.dumps(data)
dumps(data) == table_lines(<<>>, data.items, 1)

\* node after reading a line whose path, from node, is path; inside an array
\* of tables the path continues in the last table of the array
RECURSIVE toml_insert(_, _, _)
toml_insert(node, path, line) ==
    IF node.kind = "list"
    THEN [node EXCEPT !.items[Len(node.items)].v = toml_insert(@, path, line)]
    ELSE LET key == Head(path)
         IN IF Len(path) = 1
            THEN CASE line.mark = "value" -> dict_set(node, key, line.value)
                   [] line.mark = "table" -> dict_set(node, key, Table(<<>>))
                   [] line.mark = "aot" ->
                        dict_set(node, key,
                                 List(Append(Elems(dict_get_or(node, key, List(<<>>))),
                                             Table(<<>>))))
            ELSE dict_set(node, key,
                          toml_insert(dict_get_or(node, key, Table(<<>>)),
                                      Tail(path), line))

RECURSIVE loads_from(_, _, _)
loads_from(text, i, doc) ==
    IF i > Len(text) THEN doc
    ELSE loads_from(text, i + 1, toml_insert(doc, text[i].path, text[i]))

\* tomlkit.loads(string)
loads(text) == loads_from(text, 1, Table(<<>>))

----------------------------------------------------------------------------
(* configuration: assembling the model                                     *)

KEY_FOLDERS == "module_folders"
KEY_INPUT_FILE == "input_file"
KEY_OUTPUT_FILE == "output_file"
KEY_COMPONENT_ID == "id"
TABLE_MODEL == "model"
KEY_DRIVER == "driver"
TABLE_OPTIMIZATION == "optimization"
TABLES_DESIGN_VAR == "design_var"
TABLES_CONSTRAINT == "constraint"
TABLES_OBJECTIVE == "objective"

BadInstructionError == "FASTConfigurationBadOpenMDAOInstructionError"
KeyBuildingErrors == {"FASTConfigurationBaseKeyBuildingError", BadInstructionError}

\* FASTConfigurationBaseKeyBuildingError(original_exception, key, value), for
\* the class cls of the family: the key goes in front of the key path of a
\* wrapped error of the family, whose value and original exception are kept
KeyBuildingError(cls, original_exception, key, value) ==
    IF original_exception.cls \in KeyBuildingErrors
    THEN [cls |-> cls, arg |-> None,
          key |-> <<key>> \o original_exception.key,
          value |-> original_exception.value,
          original |-> original_exception.original]
    ELSE [cls |-> cls, arg |-> None, key |-> <<key>>, value |-> value,
          original |-> original_exception.cls]

\* "__" in string
HasDunder(text) ==
    \E i \in 1..(Len(text) - 1) : text[i] = "_" /\ text[i + 1] = "_"

\* eval(string, {"__builtins__": {}}, {"om": om}): what it raises or returns
python_eval(text) ==
    CASE text = <<"1.0">> -> [raised |-> None, value |-> "1.0"]
      [] text = <<"1/0">> -> [raised |-> "ZeroDivisionError", value |-> None]
      [] text = <<"om.ScipyOptimizeDriver()">> ->
            [raised |-> None, value |-> "om.ScipyOptimizeDriver"]
      [] OTHER -> [raised |-> "NameError", value |-> None]

\* an evaluator that hands every string to eval
om_eval_unchecked(string_to_eval) ==
    IF string_to_eval.kind # "str"
    THEN [arg |-> string_to_eval, evaled |-> FALSE, raised |-> "TypeError",
          value |-> None]
    ELSE LET r == python_eval(string_to_eval.text)
         IN [arg |-> string_to_eval, evaled |-> TRUE, raised |-> r.raised,
             value |-> r.value]

\* _om_eval(string_to_eval), as the record of the call: its argument, whether
\* eval() was reached, what was raised and what was returned.  `in` raises
\* TypeError on a number
om_eval(string_to_eval) ==
    IF string_to_eval.kind # "str"
    THEN [arg |-> string_to_eval, evaled |-> FALSE, raised |-> "TypeError",
          value |-> None]
    ELSE IF HasDunder(string_to_eval.text)
    THEN [arg |-> string_to_eval, evaled |-> FALSE, raised |-> "ValueError",
          value |-> None]
    ELSE LET r == python_eval(string_to_eval.text)
         IN [arg |-> string_to_eval, evaled |-> TRUE, raised |-> r.raised,
             value |-> r.value]

\* OpenMDAOSystemRegistry.get_system(identifier, options)
get_system(reg, identifier, options) ==
    IF identifier.kind = "str" /\ Len(identifier.text) = 1
       /\ identifier.text[1] \in reg
    THEN [raised |-> NoError,
          system |-> [NoSystem EXCEPT !.kind = "leaf", !.id = identifier.text,
                                      !.options = options]]
    ELSE [raised |-> Raise("FastUnknownOpenMDAOSystemIdentifierError"),
          system |-> NoSystem]

\* om.Group()
Group == [NoSystem EXCEPT !.kind = "group"]

\* group.add_subsystem(name, subsys, promotes=["*"])
add_subsystem(group, name, subsys) ==
    [group EXCEPT !.subsystems = Append(@, [subsys EXCEPT !.name = name])]

\* setattr(group, key, value)
set_attribute(group, key, value) ==
    [group EXCEPT !.attrs = Append(@, Item(key, value))]

\* an error relayed as it came
relay_unchanged(err, key) == err

\* raise FASTConfigurationBadOpenMDAOInstructionError(err, key)
relay(err, key) == KeyBuildingError(BadInstructionError, err, key, NoNode)

RECURSIVE parse_problem_table(_, _, _, _)
RECURSIVE parse_items(_, _, _, _, _)

\* _parse_problem_table(group, table): what it raises, the group as fed, and
\* calls followed by the calls of _om_eval it made
parse_problem_table(reg, group, table, calls) ==
    IF table.kind # "table"
    THEN [raised |-> Raise("AssertionError"), group |-> group, evals |-> calls]
    ELSE parse_items(reg, group, table, 1, calls)

\* the loop of _parse_problem_table, from the i-th item on
parse_items(reg, group, table, i, calls) ==
    IF i > Len(table.items)
    THEN [raised |-> NoError, group |-> group, evals |-> calls]
    ELSE
    LET key == table.items[i].k
        value == table.items[i].v
    IN IF value.kind = "table"
       THEN IF dict_has(value, KEY_COMPONENT_ID)
            THEN LET options == dict_pop(value, KEY_COMPONENT_ID)
                     identifier == dict_get(value, KEY_COMPONENT_ID)
                     found == get_system(reg, identifier, options.items)
                 IN IF found.raised # NoError
                    THEN [raised |-> found.raised, group |-> group, evals |-> calls]
                    ELSE parse_items(reg, add_subsystem(group, key, found.system),
                                     table, i + 1, calls)
            ELSE LET sub == parse_problem_table(reg, Group, value, calls)
                 IN IF sub.raised.cls = BadInstructionError
                    THEN [raised |-> relay(sub.raised, key), group |-> group,
                          evals |-> sub.evals]
                    ELSE IF sub.raised # NoError
                    THEN [raised |-> sub.raised, group |-> group, evals |-> sub.evals]
                    ELSE parse_items(reg, add_subsystem(group, key, sub.group),
                                     table, i + 1, sub.evals)
       ELSE LET c == om_eval(value)
            IN IF c.raised # None
               THEN [raised |-> KeyBuildingError(BadInstructionError,
                                                 Raise(c.raised), key, value),
                     group |-> group, evals |-> Append(calls, c)]
               ELSE parse_items(reg, set_attribute(group, key, c.value),
                                table, i + 1, Append(calls, c))

\* _build_model(): what it raises, the model, and the calls of _om_eval made
build_model(reg, conf_dict) ==
    LET model == Group
        model_definition == dict_get_or(conf_dict, TABLE_MODEL, NoNode)
        r == IF model_definition.kind \in {"none", "num"}
             THEN [raised |-> Raise("TypeError"), group |-> model, evals |-> <<>>]
             ELSE IF model_definition.kind = "str"
                     /\ KEY_COMPONENT_ID \in Range(model_definition.text)
             THEN [raised |-> Raise("TypeError"), group |-> model, evals |-> <<>>]
             ELSE IF model_definition.kind = "table"
                     /\ dict_has(model_definition, KEY_COMPONENT_ID)
             THEN LET system_id == dict_get(model_definition, KEY_COMPONENT_ID)
                      found == get_system(reg, system_id, <<>>)
                  IN IF found.raised # NoError
                     THEN [raised |-> found.raised, group |-> model, evals |-> <<>>]
                     ELSE [raised |-> NoError,
                           group |-> add_subsystem(model, "system", found.system),
                           evals |-> <<>>]
             ELSE parse_problem_table(reg, model, model_definition, <<>>)
    IN IF r.raised.cls \in KeyBuildingErrors
       THEN [r EXCEPT !.raised = KeyBuildingError(r.raised.cls, r.raised,
                                                  TABLE_MODEL, NoNode)]
       ELSE r

----------------------------------------------------------------------------
(* configuration: optimization definition, get_problem, load, save         *)

\* elem["name"], as a key
name_of(elem) == dict_get(elem, "name").text[1]

\* {elem["name"]: elem for elem in elements}, from the i-th element on
RECURSIVE name_keyed(_, _, _)
name_keyed(elements, i, acc) ==
    IF i > Len(elements) THEN acc
    ELSE name_keyed(elements, i + 1, dict_set(acc, name_of(elements[i]), elements[i]))

\* get_optimization_definition()
get_optimization_definition(conf_dict) ==
    LET opt == dict_get_or(conf_dict, TABLE_OPTIMIZATION, NoNode)
    IN IF NodeTruthy(opt)
       THEN Table([i \in 1..Len(opt.items) |->
                     Item(opt.items[i].k,
                          name_keyed(Elems(opt.items[i].v), 1, Table(<<>>)))])
       ELSE Table(<<>>)

\* an update that keeps the categories of the section that the definition
\* does not have
set_optimization_definition_merging(conf_dict, optimization_definition) ==
    LET d == optimization_definition
        subpart == Table([i \in 1..Len(d.items) |->
                            Item(d.items[i].k, List(Elems(d.items[i].v)))])
        old == dict_get_or(conf_dict, TABLE_OPTIMIZATION, Table(<<>>))
        kept == SelectSeq(old.items, LAMBDA it : ~dict_has(d, it.k))
    IN dict_set(conf_dict, TABLE_OPTIMIZATION, Table(kept \o subpart.items))

\* _conf_dict after set_optimization_definition(optimization_definition)
set_optimization_definition(conf_dict, optimization_definition) ==
    LET d == optimization_definition
        subpart == Table([i \in 1..Len(d.items) |->
                            Item(d.items[i].k, List(Elems(d.items[i].v)))])
    IN dict_set(conf_dict, TABLE_OPTIMIZATION, subpart)

\* a record left as it is
not_scaled(table) == table

\* table after table["ref0"] = table["lower"] and table["ref"] = table["upper"],
\* each for a bound the table has
auto_scaled(table) ==
    LET t0 == IF dict_has(table, "lower")
              THEN dict_set(table, "ref0", dict_get(table, "lower")) ELSE table
    IN IF dict_has(t0, "upper")
       THEN dict_set(t0, "ref", dict_get(t0, "upper")) ELSE t0

\* _conf_dict after the records of a section that the name-keyed mapping
\* holds (for each name, the last record of that name) have been scaled:
\* the mapping holds the records of _conf_dict themselves
with_scaled_tables(conf_dict, section) ==
    LET opt == dict_get_or(conf_dict, TABLE_OPTIMIZATION, NoNode)
    IN IF NodeTruthy(opt) /\ dict_has(opt, section)
       THEN LET elements == Elems(dict_get(opt, section))
                held(i) == \A j \in (i + 1)..Len(elements) :
                              name_of(elements[j]) # name_of(elements[i])
                scaled == [i \in 1..Len(elements) |->
                             IF held(i) THEN auto_scaled(elements[i])
                             ELSE elements[i]]
            IN dict_set(conf_dict, TABLE_OPTIMIZATION,
                        dict_set(opt, section, List(scaled)))
       ELSE conf_dict

\* the calls ev(**table) for the tables of a section, in the order of the
\* name-keyed mapping
registrations(conf_dict, section, ev) ==
    LET tables == dict_get_or(get_optimization_definition(conf_dict), section,
                              Table(<<>>))
    IN [i \in 1..Len(tables.items) |-> [ev |-> ev, kwargs |-> tables.items[i].v]]

\* _add_constraints(model): _conf_dict afterwards and the calls made on model
add_constraints(self) ==
    LET conf_dict == IF self.auto_scaling
                     THEN with_scaled_tables(self.conf_dict, TABLES_CONSTRAINT)
                     ELSE self.conf_dict
    IN [conf_dict |-> conf_dict,
        log |-> registrations(conf_dict, TABLES_CONSTRAINT, "add_constraint")]

\* _add_objectives(model)
add_objectives(self) ==
    [conf_dict |-> self.conf_dict,
     log |-> registrations(self.conf_dict, TABLES_OBJECTIVE, "add_objective")]

\* _add_design_vars(model)
add_design_vars(self) ==
    LET conf_dict == IF self.auto_scaling
                     THEN with_scaled_tables(self.conf_dict, TABLES_DESIGN_VAR)
                     ELSE self.conf_dict
    IN [conf_dict |-> conf_dict,
        log |-> registrations(conf_dict, TABLES_DESIGN_VAR, "add_design_var")]

isabs(path) == path # <<>> /\ path[1] = "/"
dirname(path) == SubSeq(path, 1, Len(path) - 1)

\* the properties input_file_path and output_file_path, for their key; no
\* component of the paths used is "." or "..", which normpath would remove
file_path(self, key) ==
    IF ~dict_has(self.conf_dict, key)
    THEN [raised |-> "KeyError", path |-> <<>>]
    ELSE LET path == dict_get(self.conf_dict, key)
         IN IF path.kind # "str" \/ (~isabs(path.text) /\ self.conf_file = <<>>)
            THEN [raised |-> "TypeError", path |-> <<>>]
            ELSE IF isabs(path.text) THEN [raised |-> None, path |-> path.text]
            ELSE [raised |-> None, path |-> dirname(self.conf_file) \o path.text]

\* design variables added whether or not the inputs are read
add_design_vars_unread(self, read_inputs) == add_design_vars(self)

\* the end of get_problem: if read_inputs, problem.read_inputs() and then
\* _add_design_vars(problem.model)
read_and_add_design_vars(self, read_inputs) ==
    IF read_inputs
    THEN [conf_dict |-> add_design_vars(self).conf_dict,
          log |-> <<[ev |-> "read_inputs", kwargs |-> NoNode]>>
                  \o add_design_vars(self).log]
    ELSE [conf_dict |-> self.conf_dict, log |-> <<>>]

\* get_problem(read_inputs): what it raises, the problem returned, _conf_dict
\* afterwards and the calls of _om_eval made
get_problem(reg, self, read_inputs) ==
    LET failed(err, conf_dict, calls) ==
            [raised |-> err, problem |-> NoProblem, conf_dict |-> conf_dict,
             evals |-> calls]
        built == build_model(reg, self.conf_dict)
        input_file_path == file_path(self, KEY_INPUT_FILE)
        output_file_path == file_path(self, KEY_OUTPUT_FILE)
        driver == dict_get_or(self.conf_dict, KEY_DRIVER, Str(<<>>))
        c == om_eval(driver)
        calls == IF NodeTruthy(driver) THEN Append(built.evals, c) ELSE built.evals
        optimization == NodeTruthy(get_optimization_definition(self.conf_dict))
        constraints == add_constraints(self)
        objectives == add_objectives([self EXCEPT !.conf_dict = constraints.conf_dict])
        after_model == IF optimization
                       THEN [conf_dict |-> objectives.conf_dict,
                             log |-> constraints.log \o objectives.log]
                       ELSE [conf_dict |-> self.conf_dict, log |-> <<>>]
        design_vars == read_and_add_design_vars(
                           [self EXCEPT !.conf_dict = after_model.conf_dict], read_inputs)
        after_inputs == [conf_dict |-> design_vars.conf_dict,
                         log |-> after_model.log \o design_vars.log]
    IN IF ~NodeTruthy(self.conf_dict)
       THEN failed(Raise("RuntimeError"), self.conf_dict, <<>>)
       ELSE IF built.raised # NoError
       THEN failed(built.raised, self.conf_dict, built.evals)
       ELSE IF input_file_path.raised # None
       THEN failed(Raise(input_file_path.raised), self.conf_dict, built.evals)
       ELSE IF output_file_path.raised # None
       THEN failed(Raise(output_file_path.raised), self.conf_dict, built.evals)
       ELSE IF NodeTruthy(driver) /\ c.raised # None
       THEN failed(Raise(c.raised), self.conf_dict, calls)
       ELSE [raised |-> NoError,
             problem |-> [built |-> TRUE, model |-> built.group,
                          input_file_path |-> input_file_path.path,
                          output_file_path |-> output_file_path.path,
                          driver |-> IF NodeTruthy(driver) THEN c.value ELSE None,
                          log |-> after_inputs.log],
             conf_dict |-> after_inputs.conf_dict,
             evals |-> calls]

\* FASTConfigurationError(missing_key=key) or (missing_section=key)
ConfigurationError(arg, key) ==
    [NoError EXCEPT !.cls = "FASTConfigurationError", !.arg = arg, !.key = <<key>>]

\* the folders of modules that exist, with the systems each one registers
ModuleFolders == (<<"work", "modules">> :> {"compute_y"})

\* the systems OpenMDAOSystemRegistry.explore_folder registers for the
\* module folders of the configuration that exist
explored(conf_dict, conf_dirname) ==
    LET module_folder_paths == Elems(dict_get_or(conf_dict, KEY_FOLDERS, List(<<>>)))
    IN UNION {ModuleFolders[conf_dirname \o module_folder_paths[i].text] :
                i \in {j \in 1..Len(module_folder_paths) :
                         conf_dirname \o module_folder_paths[j].text
                            \in DOMAIN ModuleFolders}}

\* a check that finds every key present
no_missing_key(conf_dict) == None

\* the first of the keys input_file and output_file that conf_dict lacks
missing_key(conf_dict) ==
    IF ~dict_has(conf_dict, KEY_INPUT_FILE) THEN KEY_INPUT_FILE
    ELSE IF ~dict_has(conf_dict, KEY_OUTPUT_FILE) THEN KEY_OUTPUT_FILE
    ELSE None

\* load(conf_file, auto_scaling): what it raises, the configurator and the
\* registry afterwards
load(self, fs, reg, conf_file, auto_scaling) ==
    LET named == [self EXCEPT !.conf_file = conf_file, !.auto_scaling = auto_scaling]
        read == [named EXCEPT !.conf_dict = loads(fs[conf_file].text)]
    IN IF ~fs[conf_file].exists
       THEN [raised |-> Raise("FileNotFoundError"), self |-> named, registry |-> reg]
       ELSE IF missing_key(read.conf_dict) # None
       THEN [raised |-> ConfigurationError("missing_key", missing_key(read.conf_dict)),
             self |-> read, registry |-> reg]
       ELSE IF dict_get_or(read.conf_dict, TABLE_MODEL, NoNode).kind # "table"
       THEN [raised |-> ConfigurationError("missing_section", TABLE_MODEL),
             self |-> read, registry |-> reg]
       ELSE [raised |-> NoError, self |-> read,
             registry |-> reg \cup explored(read.conf_dict, dirname(conf_file))]

\* save(filename): what it raises and the file system afterwards
save(self, fs, filename) ==
    LET target == IF filename = <<>> THEN self.conf_file ELSE filename
    IN IF target = <<>>
       THEN [raised |-> Raise("TypeError"), files |-> fs]
       ELSE [raised |-> NoError,
             files |-> [fs EXCEPT ![target] =
                          [exists |-> TRUE, text |-> dumps(self.conf_dict),
                           saved |-> TRUE, snapshot |-> self.conf_dict]]]

OtherUnchanged == VariableUnchanged /\ ListUnchanged /\ GraphUnchanged

\* load(conf_file, auto_scaling)
Call_load(conf_file, auto_scaling) ==
    LET r == load(conf, files, registry, conf_file, auto_scaling)
    IN /\ conf_before' = conf
       /\ conf' = r.self
       /\ registry' = r.registry
       /\ cret' = [NoCall EXCEPT !.op = "load", !.file = conf_file,
                                 !.flag = auto_scaling, !.raised = r.raised]
       /\ evals' = <<>>
       /\ loaded' = IF r.raised = NoError THEN conf_file ELSE loaded
       /\ UNCHANGED files
       /\ OtherUnchanged

\* save(filename)
Call_save(filename) ==
    LET r == save(conf, files, filename)
    IN /\ conf_before' = conf
       /\ files' = r.files
       /\ cret' = [NoCall EXCEPT !.op = "save", !.file = filename,
                                 !.raised = r.raised]
       /\ evals' = <<>>
       /\ UNCHANGED <<conf, registry, loaded>>
       /\ OtherUnchanged

\* get_problem(read_inputs)
Call_get_problem(read_inputs) ==
    LET r == get_problem(registry, conf, read_inputs)
    IN /\ conf_before' = conf
       /\ conf' = [conf EXCEPT !.conf_dict = r.conf_dict]
       /\ cret' = [NoCall EXCEPT !.op = "get_problem", !.flag = read_inputs,
                                 !.raised = r.raised, !.problem = r.problem]
       /\ evals' = r.evals
       /\ UNCHANGED <<files, registry, loaded>>
       /\ OtherUnchanged

\* get_optimization_definition()
Call_get_optimization_definition ==
    /\ conf_before' = conf
    /\ cret' = [NoCall EXCEPT !.op = "get_optimization_definition",
                              !.value = get_optimization_definition(conf.conf_dict)]
    /\ evals' = <<>>
    /\ UNCHANGED <<conf, files, registry, loaded>>
    /\ OtherUnchanged

\* set_optimization_definition(optimization_definition)
Call_set_optimization_definition(optimization_definition) ==
    /\ conf_before' = conf
    /\ conf' = [conf EXCEPT !.conf_dict =
                   set_optimization_definition(@, optimization_definition)]
    /\ cret' = [NoCall EXCEPT !.op = "set_optimization_definition",
                              !.arg = optimization_definition]
    /\ evals' = <<>>
    /\ UNCHANGED <<files, registry, loaded>>
    /\ OtherUnchanged

\* input_file_path = file_path
Set_input_file_path(new_path) ==
    /\ conf_before' = conf
    /\ conf' = [conf EXCEPT !.conf_dict = dict_set(@, KEY_INPUT_FILE, Str(new_path))]
    /\ cret' = [NoCall EXCEPT !.op = "input_file_path", !.file = new_path]
    /\ evals' = <<>>
    /\ UNCHANGED <<files, registry, loaded>>
    /\ OtherUnchanged

\* output_file_path = file_path
Set_output_file_path(new_path) ==
    /\ conf_before' = conf
    /\ conf' = [conf EXCEPT !.conf_dict = dict_set(@, KEY_OUTPUT_FILE, Str(new_path))]
    /\ cret' = [NoCall EXCEPT !.op = "output_file_path", !.file = new_path]
    /\ evals' = <<>>
    /\ UNCHANGED <<files, registry, loaded>>
    /\ OtherUnchanged

\* the ports of the registered systems: the inputs with their declared
\* defaults, in order of declaration, and the names of the outputs
SystemPorts ==
    [id \in {"compute_x", "compute_y"} |->
        IF id = "compute_x"
        THEN [inputs |-> <<[name |-> "a", value |-> Array(<<"nan">>)],
                           [name |-> "b", value |-> Array(<<"nan">>)]>>,
              outputs |-> {"c"}]
        ELSE [inputs |-> <<[name |-> "a", value |-> Array(<<"nan">>)],
                           [name |-> "c", value |-> Array(<<"nan">>)],
                           [name |-> "d", value |-> Array(<<"1.0">>)]>>,
              outputs |-> {"e"}]]

\* the inputs of the leaves of the systems from the i-th on, in order
RECURSIVE inputs_of(_, _)
inputs_of(systems, i) ==
    IF i > Len(systems) THEN <<>>
    ELSE (IF systems[i].kind = "leaf"
          THEN SystemPorts[systems[i].id[1]].inputs
          ELSE inputs_of(systems[i].subsystems, 1))
         \o inputs_of(systems, i + 1)

\* the names of the outputs of the leaves of the systems from the i-th on
RECURSIVE outputs_of(_, _)
outputs_of(systems, i) ==
    IF i > Len(systems) THEN {}
    ELSE (IF systems[i].kind = "leaf"
          THEN SystemPorts[systems[i].id[1]].outputs
          ELSE outputs_of(systems[i].subsystems, 1))
         \cup outputs_of(systems, i + 1)

\* problem.setup(): every system is promoted with "*", so a port has the
\* name of its variable and is bound when a leaf has an output of that name
setup(model) ==
    LET ins == inputs_of(<<model>>, 1)
        outs == outputs_of(<<model>>, 1)
    IN [setup |-> TRUE,
        ports |-> [k \in 1..Len(ins) |->
                     [prom |-> ins[k].name, value |-> ins[k].value,
                      src |-> IF ins[k].name \in outs THEN "out" ELSE None]]]

\* the variables of an IndepVarComp
from_ivc(outputs) ==
    [k \in 1..Len(outputs) |->
        Variable_new(EmptyDict, outputs[k].name,
                     [key \in {"value"} |-> outputs[k].val])]

\* the variables problem.write_needed_inputs writes: those of the component
\* built from the unconnected inputs, with the values of the source file
\* for those names
needed_inputs(outputs, source) ==
    update(from_ivc(outputs), source, FALSE)

\* write_needed_inputs(source_file_path, source_formatter), source being the
\* variables of the source file, none without a source file; vlist is what
\* is written to the input file of the problem
Call_write_needed_inputs(source) ==
    LET r == get_problem(registry, conf, FALSE)
    IN /\ conf_before' = conf
       /\ conf' = [conf EXCEPT !.conf_dict = r.conf_dict]
       /\ cret' = [NoCall EXCEPT !.op = "write_needed_inputs",
                                 !.raised = r.raised, !.problem = r.problem]
       /\ evals' = r.evals
       /\ before' = source
       /\ IF cret'.raised # NoError
          THEN UNCHANGED <<graph, ivc, vlist>>
          ELSE /\ graph' = setup(cret'.problem.model)
               /\ ivc' = [done |-> TRUE, raised |-> None,
                          outputs |-> build_ivc_of_unconnected_inputs(
                                          graph'.ports, FALSE),
                          with_optional_inputs |-> FALSE]
               /\ vlist' = needed_inputs(ivc'.outputs, source)
       /\ UNCHANGED <<files, registry, loaded, call, unconnected>>
       /\ VariableUnchanged

----------------------------------------------------------------------------
(* configuration: the configurations drawn, and the specifications         *)

\* depth of the groups nested in the model table
MaxDepth == 2

ConfPath == <<"work", "conf.toml">>
OtherPath == <<"work", "other.toml">>

\* the key of the sub-node of a group, by the depth of the group
SubKeys == <<"a", "b", "c", "d", "e">>
AttrKey == "bad_attr"

Leaves ==
    {Table(<<Item(KEY_COMPONENT_ID, Str(<<"compute_x">>))>>),
     Table(<<Item(KEY_COMPONENT_ID, Str(<<"compute_x">>)), Item("foo", Num("1"))>>),
     Table(<<Item(KEY_COMPONENT_ID, Str(<<"unknown">>))>>)}

AttrValues ==
    {Str(<<"1.0">>), Str(<<"1/0">>),
     Str(<<"_", "_", "import", "_", "_", "('os')">>), Num("1")}

\* the tables that may stand at a depth from which d more levels of groups
\* may be nested: a leaf, or a group of at most one sub-node and at most one
\* attribute, in either order
RECURSIVE Nodes(_)
Nodes(d) ==
    IF d = 0 THEN Leaves
    ELSE LET subs == {Item(SubKeys[MaxDepth + 2 - d], n) : n \in Nodes(d - 1)}
             attrs == {Item(AttrKey, v) : v \in AttrValues}
         IN Leaves
            \cup {Table(<<>>)}
            \cup {Table(<<it>>) : it \in subs \cup attrs}
            \cup {Table(<<sub, attr>>) : sub \in subs, attr \in attrs}
            \cup {Table(<<attr, sub>>) : sub \in subs, attr \in attrs}

ModelTables == Nodes(MaxDepth + 1)

SimpleModel ==
    Table(<<Item("a", Table(<<Item(KEY_COMPONENT_ID, Str(<<"compute_x">>))>>)),
            Item(AttrKey, Str(<<"1.0">>))>>)

Drivers ==
    {Str(<<"om.ScipyOptimizeDriver()">>), Str(<<>>), Str(<<"1/0">>),
     Str(<<"_", "_", "import", "_", "_", "('os')">>), Num("1")}

InputFile == Item(KEY_INPUT_FILE, Str(<<"inputs.xml">>))
OutputFile == Item(KEY_OUTPUT_FILE, Str(<<"/", "out", "outputs.xml">>))

BuildConfs ==
    {Table(<<InputFile, OutputFile, Item(TABLE_MODEL, m)>>) : m \in ModelTables}
    \cup {Table(<<InputFile, OutputFile, Item(KEY_DRIVER, d),
                  Item(TABLE_MODEL, SimpleModel)>>) : d \in Drivers}

\* the file written by hand for a configuration
Written(conf_dict) ==
    [exists |-> TRUE, text |-> dumps(conf_dict), saved |-> FALSE, snapshot |-> NoNode]

\* FASTOADProblemConfigurator(conf_file_path, auto_scaling) on a file system
\* whose file ConfPath holds conf_dict
Constructed(conf_dict, other, auto_scaling) ==
    LET fs == [p \in FilePaths |-> IF p = ConfPath THEN Written(conf_dict) ELSE other]
        r == load(Unloaded, fs, BuiltinSystems, ConfPath, auto_scaling)
    IN /\ r.raised = NoError
       /\ files = fs
       /\ registry = r.registry
       /\ conf = r.self
       /\ conf_before = Unloaded
       /\ cret = NoCall
       /\ evals = <<>>
       /\ loaded = ConfPath
       /\ ncalls = 0

InitBuild ==
    /\ InitVariable /\ InitList /\ InitGraph
    /\ \E conf_dict \in BuildConfs : Constructed(conf_dict, NoFile, FALSE)

NextBuild ==
    /\ \E read_inputs \in BOOLEAN : Call_get_problem(read_inputs)
    /\ UNCHANGED ncalls

SpecBuild == InitBuild /\ [][NextBuild]_vars

\* the configurations written in the files that load is given: each of
\* input_file and output_file present or not, model a table, a string or
\* absent, and for the complete one, module folders that exist or not
LoadConfs ==
    {Table((IF i THEN <<InputFile>> ELSE <<>>) \o (IF o THEN <<OutputFile>> ELSE <<>>)
           \o m) :
        i \in BOOLEAN, o \in BOOLEAN,
        m \in {<<>>, <<Item(TABLE_MODEL, SimpleModel)>>,
               <<Item(TABLE_MODEL, Str(<<"compute_x">>))>>}}
    \cup {Table(<<InputFile, OutputFile,
                  Item(KEY_FOLDERS, List(<<Str(<<f>>)>>)),
                  Item(TABLE_MODEL, Table(<<Item("a", Table(<<Item(KEY_COMPONENT_ID,
                                                               Str(<<"compute_y">>))>>))>>))>>) :
            f \in {"modules", "nowhere"}}

InitLoad ==
    /\ InitVariable /\ InitList /\ InitGraph
    /\ files \in [FilePaths -> {NoFile} \cup {Written(d) : d \in LoadConfs}]
    /\ registry = BuiltinSystems
    /\ conf = Unloaded
    /\ conf_before = Unloaded
    /\ cret = NoCall
    /\ evals = <<>>
    /\ loaded = <<>>
    /\ ncalls = 0

NextLoad ==
    /\ \/ \E conf_file \in FilePaths, auto_scaling \in BOOLEAN :
            Call_load(conf_file, auto_scaling)
       \/ \E read_inputs \in BOOLEAN : Call_get_problem(read_inputs)
    /\ UNCHANGED ncalls

SpecLoad == InitLoad /\ [][NextLoad]_vars

\* longest list of records of a category of the optimization section
MaxRecs == 2

\* the records of a design variable or constraint: its name, and each of
\* lower, upper and ref0 present or not
Records ==
    {Table(<<Item("name", Str(<<"x">>))>> \o lower \o upper \o ref0) :
        lower \in {<<>>, <<Item("lower", Num("0"))>>},
        upper \in {<<>>, <<Item("upper", Num("10"))>>},
        ref0 \in {<<>>, <<Item("ref0", Num("5"))>>}}
    \cup {Table(<<Item("name", Str(<<"y">>)), Item("lower", Num("0")),
                  Item("upper", Num("10"))>>)}

RecordLists == {List(l) : l \in SeqsUpTo(Records, MaxRecs)}

Bounded(name) ==
    List(<<Table(<<Item("name", Str(<<name>>)), Item("lower", Num("0")),
                   Item("upper", Num("10"))>>)>>)
Objective == List(<<Table(<<Item("name", Str(<<"f">>))>>)>>)

\* the optimization sections: the design variables or the constraints drawn,
\* an empty section, or objectives only
Optimizations ==
    {Table(<<Item(TABLES_DESIGN_VAR, l), Item(TABLES_CONSTRAINT, Bounded("c")),
             Item(TABLES_OBJECTIVE, Objective)>>) : l \in RecordLists}
    \cup {Table(<<Item(TABLES_DESIGN_VAR, Bounded("x")), Item(TABLES_CONSTRAINT, l),
                  Item(TABLES_OBJECTIVE, Objective)>>) : l \in RecordLists}
    \cup {Table(<<>>), Table(<<Item(TABLES_OBJECTIVE, Objective)>>)}

OptimConfs ==
    {Table(<<InputFile, OutputFile, Item(TABLE_MODEL, SimpleModel),
             Item(TABLE_OPTIMIZATION, o)>>) : o \in Optimizations}
    \cup {Table(<<InputFile, OutputFile, Item(TABLE_MODEL, SimpleModel)>>)}

InitOptim ==
    /\ InitVariable /\ InitList /\ InitGraph
    /\ \E conf_dict \in OptimConfs, auto_scaling \in BOOLEAN :
          Constructed(conf_dict, NoFile, auto_scaling)

NextOptim ==
    /\ \E read_inputs \in BOOLEAN : Call_get_problem(read_inputs)
    /\ UNCHANGED ncalls

SpecOptim == InitOptim /\ [][NextOptim]_vars

\* number of calls made on a configurator whose configuration is edited,
\* saved and loaded
MaxCalls == 4

RoundRecords ==
    {Table(<<Item("name", Str(<<"x">>)), Item("lower", Num("0"))>>),
     Table(<<Item("name", Str(<<"x">>)), Item("upper", Num("10"))>>),
     Table(<<Item("name", Str(<<"y">>)), Item("lower", Num("0")),
             Item("upper", Num("10"))>>)}

\* the configurations edited: without optimization section, with an empty
\* one, or with design variables and an objective
RoundConfs ==
    {Table(<<InputFile, OutputFile, Item(TABLE_MODEL, SimpleModel)>>),
     Table(<<InputFile, OutputFile, Item(TABLE_MODEL, SimpleModel),
             Item(TABLE_OPTIMIZATION, Table(<<>>))>>)}
    \cup {Table(<<InputFile, OutputFile, Item(TABLE_MODEL, SimpleModel),
                  Item(TABLE_OPTIMIZATION,
                       Table(<<Item(TABLES_DESIGN_VAR, List(l)),
                               Item(TABLES_OBJECTIVE, Objective)>>))>>) :
            l \in SeqsUpTo(RoundRecords, 2) \ {<<>>}}

\* the definitions given to set_optimization_definition: records keyed by
\* their name, a record keyed by another name, an empty category
OptimizationDefinitions ==
    {Table(<<Item(TABLES_DESIGN_VAR,
                  Table(<<Item("y", Table(<<Item("name", Str(<<"y">>))>>)),
                          Item("x", Table(<<Item("name", Str(<<"x">>)),
                                            Item("upper", Num("10"))>>))>>)),
             Item(TABLES_CONSTRAINT, Table(<<>>))>>),
     Table(<<Item(TABLES_DESIGN_VAR,
                  Table(<<Item("z", Table(<<Item("name", Str(<<"x">>))>>))>>))>>)}

InitRound ==
    /\ InitVariable /\ InitList /\ InitGraph
    /\ \E conf_dict \in RoundConfs : Constructed(conf_dict, NoFile, FALSE)

NextRound ==
    /\ ncalls < MaxCalls
    /\ ncalls' = ncalls + 1
    /\ \/ Call_get_optimization_definition
       \/ \E d \in OptimizationDefinitions
                   \cup (IF cret.op = "get_optimization_definition"
                         THEN {cret.value} ELSE {}) :
             Call_set_optimization_definition(d)
       \/ Set_input_file_path(<<"new_inputs.xml">>)
       \/ Set_output_file_path(<<"new_outputs.xml">>)
       \/ \E filename \in {<<>>, OtherPath} : Call_save(filename)
       \/ \E conf_file \in FilePaths : Call_load(conf_file, FALSE)

SpecRound == InitRound /\ [][NextRound]_vars

Leaf(id) == Table(<<Item(KEY_COMPONENT_ID, Str(<<id>>))>>)

\* the models whose inputs are written: one leaf, two leaves in either
\* order, one of them in a sub-group, a leaf that is not registered
WriteModels ==
    {Leaf("compute_x"), Leaf("compute_y"),
     Table(<<Item("a", Leaf("compute_x")), Item("b", Leaf("compute_y"))>>),
     Table(<<Item("g", Table(<<Item("a", Leaf("compute_y"))>>)),
             Item("b", Leaf("compute_x"))>>),
     Table(<<Item("a", Leaf("unknown"))>>)}

\* the configurations of the files: complete ones, with the folder of
\* compute_y, and one without input file
WriteConfs ==
    {Table(<<InputFile, OutputFile, Item(KEY_FOLDERS, List(<<Str(<<"modules">>)>>)),
             Item(TABLE_MODEL, m)>>) : m \in WriteModels}
    \cup {Table(<<OutputFile, Item(TABLE_MODEL, Leaf("compute_x"))>>)}

\* the variables of the source files: a needed input with a value, and a
\* variable that no model needs
SourceVariables ==
    {Variable_new(EmptyDict, n, [key \in {"value"} |-> Scalar("1.0")]) :
        n \in {"a", "z"}}
SourceLists == SeqsUpTo(SourceVariables, 2)

\* FASTOADProblemConfigurator() and the files it may be given
InitWrite ==
    /\ InitVariable /\ InitList /\ InitGraph
    /\ \E d \in WriteConfs :
          files = [p \in FilePaths |-> IF p = ConfPath THEN Written(d) ELSE NoFile]
    /\ registry = BuiltinSystems
    /\ conf = Unloaded
    /\ conf_before = Unloaded
    /\ cret = NoCall
    /\ evals = <<>>
    /\ loaded = <<>>
    /\ ncalls = 0

NextWrite ==
    /\ ncalls < MaxCalls
    /\ ncalls' = ncalls + 1
    /\ \/ \E conf_file \in FilePaths : Call_load(conf_file, FALSE)
       \/ \E source \in SourceLists : Call_write_needed_inputs(source)

SpecWrite == InitWrite /\ [][NextWrite]_vars

----------------------------------------------------------------------------
(* Claims on VariableList                                                  *)

\* C1: after every sequence of append and update calls from the empty list,
\* the names of the list are pairwise distinct and names() is as long as the
\* list.
C1_NameUniqueness ==
    /\ \A i, j \in 1..Len(vlist) : i # j => vlist[i].name # vlist[j].name
    /\ Len(names(vlist)) = Len(vlist)
    /\ Cardinality(Range(names(vlist))) = Len(vlist)

\* C1 witness: a list of several entries to which a Variable of a name
\* already present was appended.
C1_Witness ==
    /\ Len(vlist) >= 2
    /\ call.op = "append" /\ call.raised = None
    /\ call.var.name \in Range(names(before))

\* C2: append(v) with v.name present at position i keeps the length and the
\* order of the names, keeps every other entry, and puts v at position i.
C2_AppendInPlace ==
    (/\ call.op = "append" /\ call.raised = None
     /\ call.var.name \in Range(names(before))) =>
        LET i == CHOOSE k \in 1..Len(before) : before[k].name = call.var.name
        IN /\ Len(vlist) = Len(before)
           /\ names(vlist) = names(before)
           /\ \A k \in 1..Len(before) : k # i => vlist[k] = before[k]
           /\ vlist[i] = call.var

\* C2 witness: a Variable with other data was appended under the name of the
\* first of three entries.
C2_Witness ==
    /\ call.op = "append" /\ call.raised = None
    /\ Len(before) = 3
    /\ before[1].name = call.var.name
    /\ before[1] # call.var

\* the last variable of that name in other
LastOf(other, n) ==
    other[CHOOSE i \in 1..Len(other) :
             other[i].name = n /\ \A j \in (i + 1)..Len(other) : other[j].name # n]

\* the names of other that old does not have, each once, in other's order
RECURSIVE NewNames(_, _, _)
NewNames(other, old, i) ==
    IF i > Len(other) THEN <<>>
    ELSE LET n == other[i].name
             rest == NewNames(other, old, i + 1)
         IN IF n \in Range(names(old)) \/ \E j \in 1..(i - 1) : other[j].name = n
            THEN rest
            ELSE <<n>> \o rest

\* C3: update(other, add_variables) replaces every entry whose name occurs
\* in other by other's variable of that name, at its position; without
\* add_variables the names are unchanged; with add_variables the names only
\* in other are appended after the existing entries, in other's order.
C3_Update ==
    call.op = "update" =>
        LET other == call.other
            kept == [i \in 1..Len(before) |->
                        IF before[i].name \in Range(names(other))
                        THEN LastOf(other, before[i].name)
                        ELSE before[i]]
            new == NewNames(other, before, 1)
            added == [i \in 1..Len(new) |-> LastOf(other, new[i])]
        IN /\ ~call.add_variables => vlist = kept /\ names(vlist) = names(before)
           /\ call.add_variables => vlist = kept \o added

\* C3 witness: an update with add_variables replaced an entry and added a
\* name; another without add_variables was given a name the list lacks.
C3_Witness ==
    /\ call.op = "update" /\ call.add_variables
    /\ Len(before) >= 1 /\ Len(vlist) > Len(before)
    /\ \E i \in 1..Len(before) :
          /\ before[i].name \in Range(names(call.other))
          /\ vlist[i] # before[i]

\* C28: after any sequence of operations of the list, assignments of a dict
\* of metadata to a name of the list or to a new name among them, the
\* metadata of every Variable of the list has exactly the keys of the base
\* schema: no key of the dict outside the schema is kept, and none of value,
\* units, desc, shape and tags is lost.
C28_MetadataKeysAreSchema ==
    \A i \in 1..Len(vlist) :
        DOMAIN vlist[i].metadata = DOMAIN IvcBaseMetadata

\* C29: after any sequence of append, update, assignment by name or by index
\* and deletion by name or by index, the names of the list are pairwise
\* distinct and every item is a Variable; an operation that raised TypeError
\* left the list as it was.
C29_DistinctNames ==
    /\ \A i, j \in 1..Len(vlist) : vlist[i].name = vlist[j].name => i = j
    /\ \A i \in 1..Len(vlist) : IsVariable(vlist[i])
    /\ (call.op # "none" /\ call.raised = "TypeError") => vlist = before

----------------------------------------------------------------------------
(* Claims on get_unconnected_inputs                                        *)

InList(a, l) == a \in Range(l)
NoRepeat(l) == \A i, j \in 1..Len(l) : i # j => l[i] # l[j]
Bound(port) == port.src # None

\* C9: every input port is in exactly one of connected, mandatory-unconnected
\* and optional-unconnected: no port bound to an output is in a returned
\* list, no port is in both lists or twice in one, every unbound port is in
\* one of them.
C9_Partition ==
    (unconnected.done /\ unconnected.raised = None) =>
        /\ \A a \in 1..Len(graph.ports) :
              Bound(graph.ports[a]) =>
                  ~InList(a, unconnected.mandatory) /\ ~InList(a, unconnected.optional)
        /\ \A a \in 1..Len(graph.ports) :
              ~(InList(a, unconnected.mandatory) /\ InList(a, unconnected.optional))
        /\ NoRepeat(unconnected.mandatory) /\ NoRepeat(unconnected.optional)
        /\ \A a \in 1..Len(graph.ports) :
              ~Bound(graph.ports[a]) =>
                  InList(a, unconnected.mandatory) \/ InList(a, unconnected.optional)

\* C10 as claimed: an unconnected port is mandatory if its default contains
\* any NaN element, optional otherwise.
C10_Original ==
    (unconnected.done /\ unconnected.raised = None) =>
        \A a \in 1..Len(graph.ports) :
            ~Bound(graph.ports[a]) =>
                /\ InList(a, unconnected.mandatory)
                      <=> (\E i \in 1..Len(graph.ports[a].value.data) :
                              graph.ports[a].value.data[i] = "nan")
                /\ InList(a, unconnected.optional)
                      <=> ~(\E i \in 1..Len(graph.ports[a].value.data) :
                              graph.ports[a].value.data[i] = "nan")

\* C10 amended: an unconnected port is mandatory if every element of its
\* default is NaN, optional otherwise (a default with some NaN and some
\* non-NaN elements is optional).
C10_MandatoryIffAllNaN ==
    (unconnected.done /\ unconnected.raised = None) =>
        \A a \in 1..Len(graph.ports) :
            ~Bound(graph.ports[a]) =>
                /\ InList(a, unconnected.mandatory)
                      <=> (\A i \in 1..Len(graph.ports[a].value.data) :
                              graph.ports[a].value.data[i] = "nan")
                /\ InList(a, unconnected.optional)
                      <=> ~(\A i \in 1..Len(graph.ports[a].value.data) :
                              graph.ports[a].value.data[i] = "nan")

\* C10 witness: the analysis has classified an unconnected port whose default
\* has a NaN and a non-NaN element, and one whose default is all NaN.
C10_Witness ==
    /\ unconnected.done /\ unconnected.raised = None
    /\ \E a, b \in 1..Len(graph.ports) :
          /\ ~Bound(graph.ports[a]) /\ ~Bound(graph.ports[b])
          /\ graph.ports[a].value = Array(<<"nan", "1.0">>)
          /\ graph.ports[b].value = Array(<<"nan", "nan">>)
          /\ InList(a, unconnected.optional)
          /\ InList(b, unconnected.mandatory)

\* C11: get_unconnected_inputs, and so build_ivc_of_unconnected_inputs, on a
\* problem whose model has not been set up raises NoSetupError and returns
\* no classification.
C11_NoSetupError ==
    /\ unconnected.done =>
          IF graph.setup THEN unconnected.raised = None
          ELSE /\ unconnected.raised = "NoSetupError"
               /\ unconnected.mandatory = <<>> /\ unconnected.optional = <<>>
    /\ ivc.done =>
          IF graph.setup THEN ivc.raised = None
          ELSE ivc.raised = "NoSetupError" /\ ivc.outputs = <<>>

\* C11 witness: both functions have been called on a problem without setup.
C11_Witness ==
    ~graph.setup /\ unconnected.done /\ ivc.done

\* the names of the unconnected mandatory inputs of the graph
NeededNames ==
    {graph.ports[a].prom :
        a \in {b \in 1..Len(graph.ports) :
                  ~Bound(graph.ports[b]) /\ all_isnan(graph.ports[b].value)}}

\* the positions of the variables of the source file that have the name n
InSource(n) == {k \in 1..Len(before) : before[k].name = n}

Unbound(p) ==
    {a \in 1..Len(graph.ports) :
        graph.ports[a].prom = p /\ ~Bound(graph.ports[a])}

\* p is mandatory through a port, optional through a port
MandatoryName(p) == \E a \in Unbound(p) : all_isnan(graph.ports[a].value)
OptionalName(p) == \E a \in Unbound(p) : ~all_isnan(graph.ports[a].value)

\* the outputs of the built component that have the name p
OutputsOf(p) == {k \in 1..Len(ivc.outputs) : ivc.outputs[k].name = p}

\* C22: a promoted name that is mandatory through one unconnected port and
\* optional through another is output exactly once, with the all-NaN default
\* of a mandatory port of that name, whatever the order of the ports and
\* whatever with_optional_inputs.
C22_MandatoryFirst ==
    (ivc.done /\ ivc.raised = None) =>
        \A p \in PromNames :
            (MandatoryName(p) /\ OptionalName(p)) =>
                /\ Cardinality(OutputsOf(p)) = 1
                /\ \A k \in OutputsOf(p) :
                      /\ all_isnan(ivc.outputs[k].val)
                      /\ \E a \in 1..Len(graph.ports) :
                            /\ graph.ports[a].prom = p
                            /\ graph.ports[a].value = ivc.outputs[k].val

\* C22 witness: the component was built with the optional ports included,
\* for a graph where the optional port of the name comes before its
\* mandatory port, both unconnected.
C22_Witness ==
    /\ ivc.done /\ ivc.raised = None /\ ivc.with_optional_inputs
    /\ \E a, b \in 1..Len(graph.ports) :
          /\ a < b
          /\ graph.ports[a].prom = graph.ports[b].prom
          /\ ~Bound(graph.ports[a]) /\ ~Bound(graph.ports[b])
          /\ ~all_isnan(graph.ports[a].value)
          /\ all_isnan(graph.ports[b].value)

\* the first unconnected port of promoted name p
FirstUnbound(p) == CHOOSE a \in Unbound(p) : \A b \in Unbound(p) : a <= b

\* C23: the built variable set has each promoted name at most once; a name
\* that is optional through its unconnected ports and mandatory through none
\* is in the set only when with_optional_inputs is true, and then with the
\* default of its first unconnected port.
C23_EachNameOnce ==
    (ivc.done /\ ivc.raised = None) =>
        /\ \A p \in PromNames : Cardinality(OutputsOf(p)) <= 1
        /\ \A p \in PromNames :
              (OptionalName(p) /\ ~MandatoryName(p)) =>
                  /\ OutputsOf(p) # {} => ivc.with_optional_inputs
                  /\ \A k \in OutputsOf(p) :
                        ivc.outputs[k].val = graph.ports[FirstUnbound(p)].value

----------------------------------------------------------------------------
(* Claims on Variable                                                      *)

\* the keys and defaults of the base schema, as the specification names them
BaseSchemaKeys == {"value", "units", "desc", "shape", "tags"}

\* shape of a value, (1,) for a scalar
ShapeOf(v) == IF v.ndim = 0 THEN <<1>> ELSE <<Len(v.data)>>

\* values match elementwise, NaN matching NaN (a scalar or a one-element array
\* stands for each element of the other operand)
ValuesMatch(v, w) ==
    /\ Broadcastable(v, w)
    /\ \A i \in 1..BroadcastLen(v, w) : Elem(v, i) = Elem(w, i)

\* C4: two Variables compare equal if and only if their names match, their
\* metadata other than value and tags match, and their values match
\* elementwise with NaN equal to NaN.
C4_NanAwareEquality ==
    ret.op = "__eq__" =>
        LET self == obj[ret.a]
            other == obj[ret.b]
        IN (ret.raised = None /\ ret.result) <=>
              /\ self.name = other.name
              /\ \A k \in BaseSchemaKeys \ {"value", "tags"} :
                    self.metadata[k] = other.metadata[k]
              /\ ValuesMatch(self.metadata["value"], other.metadata["value"])

\* C4 witness: two instances named alike whose value is NaN and whose tags
\* differ have been compared, and compared equal.
C4_Witness ==
    /\ ret.op = "__eq__" /\ ret.a # ret.b /\ ret.raised = None /\ ret.result
    /\ obj[ret.a].metadata["value"] = Scalar("nan")
    /\ obj[ret.b].metadata["value"] = Scalar("nan")
    /\ obj[ret.a].metadata["tags"] # obj[ret.b].metadata["tags"]

\* C5: constructing a Variable with an empty or null name fails with
\* ValueError and no Variable is produced.
C5_EmptyNameRejected ==
    /\ \A s \in DOMAIN obj : obj[s].name \notin {"", None}
    /\ (ret.op = "__init__" /\ made[ret.slot].name \in {"", None})
          => ret.raised = "ValueError"

\* C6: for a Variable constructed without an explicit shape, the shape
\* metadata is the shape of the current value after every reassignment of
\* value.
C6_ShapeFollowsValue ==
    \A s \in DOMAIN obj :
        "shape" \notin DOMAIN made[s].kwargs =>
            obj[s].metadata["shape"] = {ShapeOf(obj[s].metadata["value"])}

\* C7 as claimed: the constructor keeps exactly the keys of the base schema,
\* each with the passed value if given, else the default of the schema.
C7_Original ==
    ret.op = "__init__" =>
        LET kwargs == made[ret.slot].kwargs
            md == obj[ret.slot].metadata
        IN /\ DOMAIN md = BaseSchemaKeys
           /\ \A k \in BaseSchemaKeys :
                 md[k] = IF k \in DOMAIN kwargs THEN kwargs[k]
                         ELSE IvcBaseMetadata[k]

\* C7 amended: the constructor keeps exactly the keys of the base schema, each
\* with the passed value if given, else the default; except that a shape that
\* is None after this merge becomes the shape of the value, and a description
\* that is empty or None after this merge becomes the internal description of
\* the name when there is one.
C7_SchemaKeysOnly ==
    ret.op = "__init__" =>
        LET name == made[ret.slot].name
            kwargs == made[ret.slot].kwargs
            md == obj[ret.slot].metadata
            given(k) == IF k \in DOMAIN kwargs THEN kwargs[k]
                        ELSE IvcBaseMetadata[k]
        IN /\ DOMAIN md = BaseSchemaKeys
           /\ \A k \in BaseSchemaKeys \ {"shape", "desc"} : md[k] = given(k)
           /\ md["shape"] = IF given("shape") = {}
                            THEN {ShapeOf(given("value"))}
                            ELSE given("shape")
           /\ md["desc"] = IF given("desc") \in {"", None}
                              /\ name \in DOMAIN VariableDescriptions
                           THEN VariableDescriptions[name]
                           ELSE given("desc")

\* C7 witness: a constructor call was given a key outside the schema and a
\* key of the schema.
C7_Witness ==
    /\ ret.op = "__init__"
    /\ "foo" \in DOMAIN made[ret.slot].kwargs
    /\ "units" \in DOMAIN made[ret.slot].kwargs
    /\ obj[ret.slot].metadata["units"] = "m"

\* C8: get_authorized_keys returns the keys accepted when creating a
\* Variable (the base schema); stated here for the calls made after a
\* Variable has been constructed.
C8_AuthorizedKeys ==
    (ret.op = "get_authorized_keys" /\ DOMAIN obj # {}) =>
        /\ BaseSchemaKeys \subseteq ret.keys
        /\ \A s \in DOMAIN obj : ret.keys = DOMAIN obj[s].base_metadata

----------------------------------------------------------------------------
(* Claims on the assembly of the model                                     *)

\* the values of the attributes of a group table and of the groups nested in
\* it, in the order of the items, from the i-th item on
RECURSIVE attribute_values(_, _)
attribute_values(table, i) ==
    IF i > Len(table.items) THEN <<>>
    ELSE LET v == table.items[i].v
         IN (IF v.kind # "table" THEN <<v>>
             ELSE IF dict_has(v, KEY_COMPONENT_ID) THEN <<>>
             ELSE attribute_values(v, 1))
            \o attribute_values(table, i + 1)

\* the expressions of a configuration: the attribute values of its model
\* table, then its driver if it has one
Expressions(conf_dict) ==
    LET model_definition == dict_get(conf_dict, TABLE_MODEL)
        driver == dict_get_or(conf_dict, KEY_DRIVER, Str(<<>>))
    IN (IF dict_has(model_definition, KEY_COMPONENT_ID) THEN <<>>
        ELSE attribute_values(model_definition, 1))
       \o (IF NodeTruthy(driver) THEN <<driver>> ELSE <<>>)

\* C12: _om_eval raises ValueError, without reaching eval(), for every string
\* that contains a double underscore; get_problem hands the expressions of
\* the configuration, attribute values and driver, to _om_eval in order, all
\* of them if it succeeds; the string "1.0" is evaluated and gives 1.0.
C12_DunderRejected ==
    cret.op = "get_problem" =>
        LET expressions == Expressions(conf_before.conf_dict)
        IN /\ Len(evals) <= Len(expressions)
           /\ cret.raised = NoError => Len(evals) = Len(expressions)
           /\ \A i \in 1..Len(evals) :
                /\ evals[i].arg = expressions[i]
                /\ evals[i].evaled => ~HasDunder(evals[i].arg.text)
                /\ (evals[i].arg.kind = "str" /\ HasDunder(evals[i].arg.text)) =>
                      /\ ~evals[i].evaled
                      /\ evals[i].raised = "ValueError"
                      /\ i = Len(evals)
                      /\ "ValueError" \in {cret.raised.cls, cret.raised.original}
                /\ evals[i].arg = Str(<<"1.0">>) =>
                      /\ evals[i].evaled
                      /\ evals[i].raised = None
                      /\ evals[i].value = "1.0"

\* C12 witness: get_problem evaluated the attribute "1.0" and then rejected a
\* driver expression with a double underscore.
C12_Witness ==
    /\ cret.op = "get_problem"
    /\ Len(evals) = 2
    /\ evals[1].arg = Str(<<"1.0">>) /\ evals[1].value = "1.0"
    /\ dict_has(conf_before.conf_dict, KEY_DRIVER)
    /\ evals[2].arg = dict_get(conf_before.conf_dict, KEY_DRIVER)
    /\ HasDunder(evals[2].arg.text)
    /\ cret.raised.cls = "ValueError"

\* the leaf that the claim describes for a table with an id: made from the
\* identifier, with every other key as an option
LeafOf(name, table) ==
    [NoSystem EXCEPT !.kind = "leaf", !.name = name,
                     !.id = dict_get(table, KEY_COMPONENT_ID).text,
                     !.options = dict_pop(table, KEY_COMPONENT_ID).items]

\* group is assembled from table with one subsystem for each table among the
\* items, a leaf as LeafOf describes for each one that has an id
RECURSIVE AssembledFrom(_, _)
AssembledFrom(group, table) ==
    LET nodes == SelectSeq(table.items, LAMBDA it : it.v.kind = "table")
    IN /\ group.kind = "group"
       /\ Len(group.subsystems) = Len(nodes)
       /\ \A i \in 1..Len(nodes) :
            IF dict_has(nodes[i].v, KEY_COMPONENT_ID)
            THEN group.subsystems[i] = LeafOf(nodes[i].k, nodes[i].v)
            ELSE /\ group.subsystems[i].name = nodes[i].k
                 /\ AssembledFrom(group.subsystems[i], nodes[i].v)

\* C13: every table of the model with the key id, the root table or a nested
\* one, is assembled as one leaf made by the registry from that identifier
\* with all its other keys as options.
C13_LeafOptions ==
    (cret.op = "get_problem" /\ cret.raised = NoError) =>
        LET model_definition == dict_get(conf_before.conf_dict, TABLE_MODEL)
            model == cret.problem.model
        IN IF dict_has(model_definition, KEY_COMPONENT_ID)
           THEN /\ model.attrs = <<>>
                /\ model.subsystems = <<LeafOf("system", model_definition)>>
           ELSE AssembledFrom(model, model_definition)

\* the node of a table at a key path, NoNode if there is none
RECURSIVE node_at(_, _)
node_at(node, path) ==
    IF path = <<>> THEN node
    ELSE IF node.kind = "table" /\ dict_has(node, Head(path))
    THEN node_at(dict_get(node, Head(path)), Tail(path))
    ELSE NoNode

NestedBadAttr ==
    Table(<<Item("a", Table(<<Item("b",
        Table(<<Item("bad_attr", Str(<<"1/0">>))>>))>>))>>)

\* C14: a bad-instruction error raised by the assembly carries the key path
\* from model down to the attribute whose evaluation failed, one key for each
\* level crossed, with the offending value and the original exception; for
\* the model table {a: {b: {bad_attr: "1/0"}}} the path is model, a, b,
\* bad_attr and the cause ZeroDivisionError.
C14_ErrorPath ==
    LET model_definition == dict_get(conf_before.conf_dict, TABLE_MODEL)
        path == cret.raised.key
        value == node_at(model_definition, Tail(path))
    IN /\ (cret.op = "get_problem" /\ cret.raised.cls = BadInstructionError) =>
            /\ Len(path) >= 2 /\ path[1] = TABLE_MODEL
            /\ value.kind \in {"str", "num"}
            /\ cret.raised.value = value
            /\ cret.raised.original # None
            /\ cret.raised.original = evals[Len(evals)].raised
            /\ evals[Len(evals)].arg = value
       /\ (cret.op = "get_problem" /\ model_definition = NestedBadAttr) =>
            /\ cret.raised.cls = BadInstructionError
            /\ path = <<"model", "a", "b", "bad_attr">>
            /\ cret.raised.original = "ZeroDivisionError"

\* C14 witness: get_problem was called on the model table
\* {a: {b: {bad_attr: "1/0"}}}.
C14_Witness ==
    /\ cret.op = "get_problem"
    /\ dict_get(conf_before.conf_dict, TABLE_MODEL) = NestedBadAttr
    /\ cret.raised.cls = BadInstructionError

\* the value that the evaluation of a scalar gives: that of eval() for a
\* string, the number itself for a number
evaluated(value) ==
    IF value.kind = "str" THEN python_eval(value.text).value ELSE value.text

\* group carries one attribute for each item of table that is not a table,
\* named by the key of the item and holding its evaluated value, and no
\* subsystem of that name; and so do the groups nested in it
RECURSIVE AttributesFrom(_, _)
AttributesFrom(group, table) ==
    LET scalars == SelectSeq(table.items, LAMBDA it : it.v.kind # "table")
        nodes == SelectSeq(table.items, LAMBDA it : it.v.kind = "table")
    IN /\ Len(group.attrs) = Len(scalars)
       /\ \A i \in 1..Len(scalars) :
            /\ group.attrs[i] = Item(scalars[i].k, evaluated(scalars[i].v))
            /\ \A j \in 1..Len(group.subsystems) :
                 group.subsystems[j].name # scalars[i].k
       /\ Len(group.subsystems) = Len(nodes)
       /\ \A i \in 1..Len(nodes) :
            ~dict_has(nodes[i].v, KEY_COMPONENT_ID) =>
                AttributesFrom(group.subsystems[i], nodes[i].v)

\* C24: in a group node of the model table, every key whose value is not a
\* table, a string or a number, is evaluated by _om_eval and the result is set
\* as the attribute of that name on the group of the node, with no subsystem
\* made for it: a number that is the value of an attribute is evaluated by
\* _om_eval and gives a result, and a model assembled from a group table
\* carries these attributes.
C24_ScalarAttributes ==
    cret.op = "get_problem" =>
        LET model_definition == dict_get(conf_before.conf_dict, TABLE_MODEL)
            attributes == IF dict_has(model_definition, KEY_COMPONENT_ID) THEN <<>>
                          ELSE attribute_values(model_definition, 1)
        IN /\ \A i \in 1..Len(evals) :
                (i <= Len(attributes) /\ evals[i].arg.kind = "num") =>
                    /\ evals[i].arg = attributes[i]
                    /\ evals[i].raised = None
                    /\ evals[i].value = evaluated(evals[i].arg)
           /\ (cret.raised = NoError
               /\ ~dict_has(model_definition, KEY_COMPONENT_ID)) =>
                  AttributesFrom(cret.problem.model, model_definition)

\* the key path of the first item of table, from the i-th on, at which the
\* assembly fails: a leaf whose id is not registered or an attribute whose
\* evaluation raises, in a group nested at any depth; <<>> if there is none
RECURSIVE FirstFailure(_, _, _)
FirstFailure(reg, table, i) ==
    IF i > Len(table.items) THEN <<>>
    ELSE LET key == table.items[i].k
             value == table.items[i].v
             sub == FirstFailure(reg, value, 1)
             own == IF value.kind # "table"
                    THEN (IF om_eval(value).raised # None THEN <<key>> ELSE <<>>)
                    ELSE IF dict_has(value, KEY_COMPONENT_ID)
                    THEN (IF get_system(reg, dict_get(value, KEY_COMPONENT_ID),
                                        <<>>).raised # NoError
                          THEN <<key>> ELSE <<>>)
                    ELSE IF sub = <<>> THEN <<>> ELSE <<key>> \o sub
         IN IF own # <<>> THEN own ELSE FirstFailure(reg, table, i + 1)

\* C25: every error of the assembly of a group table, the failure of the
\* registry for an id that is not registered in a nested leaf included,
\* reaches the caller of get_problem as an error of the key-building family
\* that carries the key path from model down to the node that failed.
C25_StructuralErrorPath ==
    LET model_definition == dict_get(conf_before.conf_dict, TABLE_MODEL)
        failure == FirstFailure(registry, model_definition, 1)
    IN (/\ cret.op = "get_problem"
        /\ ~dict_has(model_definition, KEY_COMPONENT_ID)
        /\ failure # <<>>) =>
           /\ cret.raised.cls \in KeyBuildingErrors
           /\ cret.raised.key = <<TABLE_MODEL>> \o failure

\* C26: get_problem and write_needed_inputs called before any load has
\* succeeded raise the RuntimeError "read configuration file first" and
\* build no problem and no graph; once a load has succeeded, every call that
\* succeeds returns a problem whose model is assembled anew from the
\* configuration held at the call.
C26_ReadConfigurationFirst ==
    cret.op \in {"get_problem", "write_needed_inputs"} =>
        /\ loaded = <<>> =>
              /\ cret.raised = Raise("RuntimeError")
              /\ ~cret.problem.built
              /\ ~graph.setup
        /\ (loaded # <<>> /\ cret.raised = NoError) =>
              /\ cret.problem.built
              /\ cret.problem.model = build_model(registry, conf_before.conf_dict).group

----------------------------------------------------------------------------
(* Claims on load                                                          *)

\* C15: load of a file that lacks input_file or output_file raises the
\* configuration error for a missing key, naming a key that is absent; with
\* both keys, it raises the configuration error for a missing section when
\* model is absent or is not a table, and raises nothing otherwise; it
\* never succeeds when model is absent or is not a table.
C15_LoadChecks ==
    (cret.op = "load" /\ files[cret.file].exists) =>
        LET written == loads(files[cret.file].text)
            absent == {k \in {KEY_INPUT_FILE, KEY_OUTPUT_FILE} : ~dict_has(written, k)}
            model_is_table == /\ dict_has(written, TABLE_MODEL)
                              /\ dict_get(written, TABLE_MODEL).kind = "table"
        IN /\ cret.raised.cls \in {None, "FASTConfigurationError"}
           /\ absent # {} =>
                /\ cret.raised.cls = "FASTConfigurationError"
                /\ cret.raised.arg = "missing_key"
                /\ Len(cret.raised.key) = 1 /\ cret.raised.key[1] \in absent
           /\ (absent = {} /\ ~model_is_table) =>
                /\ cret.raised.cls = "FASTConfigurationError"
                /\ cret.raised.arg = "missing_section"
                /\ cret.raised.key = <<TABLE_MODEL>>
           /\ ~model_is_table => cret.raised # NoError
           /\ (absent = {} /\ model_is_table) => cret.raised = NoError

\* C15 witness: a load failed on a file that has both keys and a model that
\* is not a table.
C15_Witness ==
    /\ cret.op = "load" /\ files[cret.file].exists
    /\ dict_has(conf.conf_dict, KEY_INPUT_FILE)
    /\ dict_has(conf.conf_dict, KEY_OUTPUT_FILE)
    /\ dict_has(conf.conf_dict, TABLE_MODEL)
    /\ cret.raised.arg = "missing_section"

\* C16: a load that fails on a missing key or on a missing or ill-shaped
\* model section leaves the configurator as it was before the call: same
\* configuration table, same configuration file, same auto-scaling flag, and
\* unloaded if it was unloaded.
C16_FailedLoadKeepsState ==
    (cret.op = "load" /\ cret.raised.cls = "FASTConfigurationError") =>
        /\ conf.conf_dict = conf_before.conf_dict
        /\ conf.conf_file = conf_before.conf_file
        /\ conf.auto_scaling = conf_before.auto_scaling
        /\ conf_before = Unloaded => conf = Unloaded

----------------------------------------------------------------------------
(* Claims on the optimization definition                                   *)

\* the records of a category in a configuration, none without the section
\* or the category
Configured(conf_dict, section) ==
    LET opt == dict_get_or(conf_dict, TABLE_OPTIMIZATION, Table(<<>>))
    IN Range(Elems(dict_get_or(opt, section, List(<<>>))))

\* the records that the last call registered with ev
Registered(ev) ==
    {cret.problem.log[i].kwargs :
        i \in {j \in 1..Len(cret.problem.log) : cret.problem.log[j].ev = ev}}

WithoutRefs(table) == dict_pop(dict_pop(table, "ref"), "ref0")

\* the records registered with ev are those of the section in the
\* configuration, one for each name, scaled or as written
RegisteredFrom(ev, section) ==
    LET configured == Configured(conf_before.conf_dict, section)
    IN /\ \A r \in configured : \E t \in Registered(ev) : name_of(t) = name_of(r)
       /\ \A t \in Registered(ev) :
            IF conf_before.auto_scaling
            THEN /\ \E r \in configured : WithoutRefs(t) = WithoutRefs(r)
                 /\ dict_has(t, "lower") =>
                       dict_has(t, "ref0") /\ dict_get(t, "ref0") = dict_get(t, "lower")
                 /\ dict_has(t, "upper") =>
                       dict_has(t, "ref") /\ dict_get(t, "ref") = dict_get(t, "upper")
            ELSE t \in configured

\* C17: with auto_scaling, every constraint and every design variable is
\* registered by get_problem with ref0 equal to its lower bound and ref
\* equal to its upper bound, for the bounds it has; without auto_scaling the
\* records are registered as they are written in the configuration.
C17_AutoScaling ==
    (cret.op = "get_problem" /\ cret.raised = NoError) =>
        /\ RegisteredFrom("add_constraint", TABLES_CONSTRAINT)
        /\ cret.flag => RegisteredFrom("add_design_var", TABLES_DESIGN_VAR)

\* C17 witness: with auto_scaling, get_problem registered the design
\* variable {name: x, lower: 0, upper: 10} with ref0 = 0 and ref = 10, and a
\* constraint with its bounds as references.
C17_Witness ==
    /\ cret.op = "get_problem" /\ cret.raised = NoError
    /\ conf_before.auto_scaling
    /\ Table(<<Item("name", Str(<<"x">>)), Item("lower", Num("0")),
               Item("upper", Num("10"))>>)
          \in Configured(conf_before.conf_dict, TABLES_DESIGN_VAR)
    /\ Table(<<Item("name", Str(<<"x">>)), Item("lower", Num("0")),
               Item("upper", Num("10")), Item("ref0", Num("0")),
               Item("ref", Num("10"))>>) \in Registered("add_design_var")
    /\ \E t \in Registered("add_constraint") :
          dict_has(t, "ref") /\ dict_get(t, "ref") = Num("10")

\* the positions of the calls ev in the log of the problem returned
At(ev) == {i \in 1..Len(cret.problem.log) : cret.problem.log[i].ev = ev}

\* C18: get_problem registers constraints and objectives only if the
\* configuration has an optimization section, and then all of them;
\* it registers design variables only if read_inputs, after the one call of
\* read_inputs; without read_inputs it neither reads the inputs nor
\* registers a design variable.
C18_RegistrationOrder ==
    (cret.op = "get_problem" /\ cret.raised = NoError) =>
        /\ At("add_constraint") \cup At("add_objective") # {} =>
              dict_has(conf_before.conf_dict, TABLE_OPTIMIZATION)
        /\ \A r \in Configured(conf_before.conf_dict, TABLES_CONSTRAINT) :
              \E t \in Registered("add_constraint") : name_of(t) = name_of(r)
        /\ Registered("add_objective")
              = Configured(conf_before.conf_dict, TABLES_OBJECTIVE)
        /\ ~cret.flag => At("add_design_var") = {} /\ At("read_inputs") = {}
        /\ cret.flag =>
              /\ Cardinality(At("read_inputs")) = 1
              /\ \A i \in At("read_inputs"), j \in At("add_design_var") : i < j
              /\ \A r \in Configured(conf_before.conf_dict, TABLES_DESIGN_VAR) :
                    \E t \in Registered("add_design_var") : name_of(t) = name_of(r)

\* C18 witness: get_problem(read_inputs=True) registered a constraint, an
\* objective and, after reading the inputs, a design variable.
C18_Witness ==
    /\ cret.op = "get_problem" /\ cret.raised = NoError /\ cret.flag
    /\ At("add_constraint") # {} /\ At("add_objective") # {}
    /\ At("add_design_var") # {}

\* C27: get_problem, with or without read_inputs and with or without
\* auto_scaling, leaves the configuration held in memory as it was: the model
\* table and every optimization record have the same keys and values after
\* the call as before, so that save would write the same text.
C27_ConfigurationUnchanged ==
    cret.op = "get_problem" =>
        /\ conf.conf_dict = conf_before.conf_dict
        /\ dumps(conf.conf_dict) = dumps(conf_before.conf_dict)

Sections == {TABLES_DESIGN_VAR, TABLES_CONSTRAINT, TABLES_OBJECTIVE}

\* every record of the definition is keyed by its own name
KeyedByName(optimization_definition) ==
    \A i \in 1..Len(optimization_definition.items) :
        \A it \in Range(optimization_definition.items[i].v.items) :
            it.k = name_of(it.v)

\* C19: set_optimization_definition(get_optimization_definition()) leaves,
\* for each category, the same set of records in the configuration, and
\* get_optimization_definition() after set_optimization_definition(d)
\* returns d when each record of d is keyed by its own name.
C19_LosslessConversion ==
    cret.op = "set_optimization_definition" =>
        /\ cret.arg = get_optimization_definition(conf_before.conf_dict) =>
              \A section \in Sections :
                 Configured(conf.conf_dict, section)
                    = Configured(conf_before.conf_dict, section)
        /\ KeyedByName(cret.arg) =>
              get_optimization_definition(conf.conf_dict) = cret.arg

\* C20: a load of a file written by save gives a configuration with the
\* model table, the optimization definition and the input and output files
\* that the configuration had when it was saved; save without a file name
\* writes the configuration to the file that was last loaded.
C20_SaveLoadRoundTrip ==
    /\ (cret.op = "load" /\ files[cret.file].saved) =>
          LET saved == files[cret.file].snapshot
          IN /\ dict_get_or(conf.conf_dict, TABLE_MODEL, NoNode)
                   = dict_get_or(saved, TABLE_MODEL, NoNode)
             /\ get_optimization_definition(conf.conf_dict)
                   = get_optimization_definition(saved)
             /\ dict_get_or(conf.conf_dict, KEY_INPUT_FILE, NoNode)
                   = dict_get_or(saved, KEY_INPUT_FILE, NoNode)
             /\ dict_get_or(conf.conf_dict, KEY_OUTPUT_FILE, NoNode)
                   = dict_get_or(saved, KEY_OUTPUT_FILE, NoNode)
    /\ (cret.op = "save" /\ cret.file = <<>>) =>
          /\ cret.raised = NoError
          /\ files[loaded].saved
          /\ files[loaded].snapshot = conf.conf_dict
          /\ files[loaded].text = dumps(conf.conf_dict)

\* the top-level keys of a configuration beside the optimization section
OtherKeys == {KEY_INPUT_FILE, KEY_OUTPUT_FILE, TABLE_MODEL, KEY_DRIVER, KEY_FOLDERS}

\* C30: set_optimization_definition(d) replaces the whole optimization
\* section by d converted to lists of records: afterwards the section has
\* the categories of d, in order, each with the records of d as a list, so a
\* category that the configuration had and d has not is gone; every other
\* top-level key of the configuration is as it was.
C30_SectionReplaced ==
    cret.op = "set_optimization_definition" =>
        LET d == cret.arg
            section == dict_get_or(conf.conf_dict, TABLE_OPTIMIZATION, NoNode)
        IN /\ section.kind = "table"
           /\ Len(section.items) = Len(d.items)
           /\ \A i \in 1..Len(d.items) :
                /\ section.items[i].k = d.items[i].k
                /\ section.items[i].v.kind = "list"
                /\ Elems(section.items[i].v) =
                      [j \in 1..Len(d.items[i].v.items) |-> d.items[i].v.items[j].v]
           /\ \A category \in Sections :
                dict_has(section, category) <=> dict_has(d, category)
           /\ \A key \in OtherKeys :
                /\ dict_has(conf.conf_dict, key) <=> dict_has(conf_before.conf_dict, key)
                /\ dict_get_or(conf.conf_dict, key, NoNode) =
                      dict_get_or(conf_before.conf_dict, key, NoNode)

\* C30 witness: the configuration had objectives, the definition given has
\* none, and the section has none after the call.
C30_Witness ==
    /\ cret.op = "set_optimization_definition"
    /\ dict_has(dict_get_or(conf_before.conf_dict, TABLE_OPTIMIZATION, Table(<<>>)),
                TABLES_OBJECTIVE)
    /\ ~dict_has(cret.arg, TABLES_OBJECTIVE)
    /\ ~dict_has(dict_get(conf.conf_dict, TABLE_OPTIMIZATION), TABLES_OBJECTIVE)
    /\ dict_has(conf.conf_dict, KEY_INPUT_FILE)
====
